---- MODULE Spec2Model ----
(***************************************************************************)
(* A model of the greentic QA form engine (vendor/greentic-qa): the        *)
(* expression evaluator, computed answers, visibility, validation,         *)
(* progress, the plan/execute runner, the store with its secrets gate,     *)
(* include composition, the component-qa entry points and the wizard       *)
(* driver of qa-lib.                                                       *)
(*                                                                         *)
(* JSON values are records [t, n, s]: t is the JSON type, n the payload of *)
(* a boolean (0/1) or an integer number, s the payload of a string.        *)
(* Option::None is the value NoneV.  A JSON object whose members are       *)
(* such values is a function from its keys to values.                      *)
(***************************************************************************)
EXTENDS Integers, Sequences, FiniteSets, TLC

VARIABLES
    form,       \* the FormSpec the calls are made on
    context,    \* the runtime context (ctx) handed to the calls
    input,      \* the answers value handed to the calls
    call,       \* the last engine operation applied ("init" before any)
    out,        \* the result of the last engine operation
    store_ctx,  \* the caller's StoreContext
    store_out,  \* the last store operation and its Result
    driver,     \* the fields of the WizardDriver
    reply,      \* what the last WizardDriver call returned
    include_registry,   \* the include registry: form_ref -> FormSpec
    root_form,          \* the form handed to expand_includes
    expansion           \* the Result of expand_includes

engineVars == <<form, context, input, call, out>>
storeVars == <<store_ctx, store_out>>
driverVars == <<driver, reply>>
composeVars == <<include_registry, root_form, expansion>>
vars == <<engineVars, storeVars, driverVars, composeVars>>

----------------------------------------------------------------------------
(* JSON values                                                             *)

NoneV == [t |-> "none", n |-> 0, s |-> ""]
Null == [t |-> "null", n |-> 0, s |-> ""]
Bool(b) == [t |-> "bool", n |-> IF b THEN 1 ELSE 0, s |-> ""]
Num(i) == [t |-> "num", n |-> i, s |-> ""]
Str(x) == [t |-> "str", n |-> 0, s |-> x]
\* An array: items is the sequence of its entries, objects or other values.
Arr(items) == [t |-> "array", n |-> 0, s |-> "", items |-> items]

\* F(v) with v computed once, before F uses it: a `let` of the source
\* whose value is read more than once.
With(v, F(_)) == CHOOSE r \in {F(x) : x \in {v}} : TRUE

\* The strings of the model, in lexicographic (byte) order.
StrOrder == <<"No", "a", "b", "no", "true", "x", "yes">>
StrRank(x) == CHOOSE i \in 1..Len(StrOrder) : StrOrder[i] = x

\* An empty JSON object.
EmptyObj == [k \in {} |-> NoneV]

\* Map::insert / Map::remove / Map::get on an object.
Insert(obj, key, value) ==
    [k \in DOMAIN obj \cup {key} |-> IF k = key THEN value ELSE obj[k]]
Remove(obj, key) == [k \in DOMAIN obj \ {key} |-> obj[k]]
Get(obj, key) == IF key \in DOMAIN obj THEN obj[key] ELSE NoneV

\* Value::as_object().cloned().unwrap_or_default(): a value that is not an
\* object (a leaf record) gives the empty object.
IsObject(value) == "t" \notin DOMAIN value
as_object(value) == IF IsObject(value) THEN value ELSE EmptyObj

\* Option::is_some: an object is a value too.
IsSome(v) == IsObject(v) \/ v.t # "none"

----------------------------------------------------------------------------
(* Expr: the expression AST and its evaluator (expr.rs)                    *)

NoExpr == [op |-> "none"]
Literal(v) == [op |-> "literal", value |-> v]
Var(p) == [op |-> "var", path |-> p]
Answer(p) == [op |-> "answer", path |-> p]
IsSet(p) == [op |-> "is_set", path |-> p]
And(xs) == [op |-> "and", expressions |-> xs]
Or(xs) == [op |-> "or", expressions |-> xs]
Not(x) == [op |-> "not", expression |-> x]
Cmp(o, l, r) == [op |-> o, left |-> l, right |-> r]

\* build_expression_context: the answers' own keys, then the key "answers"
\* holding the whole value (it replaces an answer of that name).
build_expression_context(answers) ==
    Insert(as_object(answers), "answers", answers)

\* The paths of the model that start with '/', and the reference tokens of
\* each as a JSON pointer.
AbsolutePaths == {"/", "/q1", "/q2", "/q2/0", "/answers", "/answers/q1"}
pointer_tokens(pointer) ==
    CASE pointer = "/" -> <<"">>
      [] pointer = "/q1" -> <<"q1">>
      [] pointer = "/q2" -> <<"q2">>
      [] pointer = "/q2/0" -> <<"q2", "0">>
      [] pointer = "/answers" -> <<"answers">>
      [] pointer = "/answers/q1" -> <<"answers", "q1">>

\* str::trim on the paths of the model.
trim(path) ==
    CASE path = " q1 " -> "q1"
      [] path = " " -> ""
      [] OTHER -> path

\* path.split('.') without the empty segments, on the paths of the model:
\* a path without a dot is its own only segment.
dotted_segments(path) ==
    CASE path = "" -> <<>>
      [] path = "." -> <<>>
      [] path = "q1." -> <<"q1">>
      [] path = ".q1" -> <<"q1">>
      [] path = "q2.0" -> <<"q2", "0">>
      [] path = "answers.q1" -> <<"answers", "q1">>
      [] path = "answers.q2" -> <<"answers", "q2">>
      [] path = "p.q1" -> <<"p", "q1">>
      [] path = "p.q2" -> <<"p", "q2">>
      [] path = "r.q1" -> <<"r", "q1">>
      [] path = "r.q2" -> <<"r", "q2">>
      [] path = "p.r.q1" -> <<"p", "r", "q1">>
      [] path = "p.r.q2" -> <<"p", "r", "q2">>
      [] OTHER -> <<path>>

\* segment.parse::<usize>() on the segments of the model: -1 for a segment
\* that is no index.
parse_index(segment) ==
    CASE segment = "0" -> 0
      [] segment = "1" -> 1
      [] segment = "2" -> 2
      [] OTHER -> -1

\* Value::get(index) and Value::get(key): an index reads an array, a key
\* an object.
get_index(value, index) ==
    IF ~IsObject(value) /\ value.t = "array" /\ index < Len(value.items)
    THEN value.items[index + 1] ELSE NoneV
get_key(value, key) == IF IsObject(value) THEN Get(value, key) ELSE NoneV

\* Value::pointer from token i on: a token is a key of an object or an
\* index of an array.
RECURSIVE value_pointer(_, _, _)
value_pointer(value, tokens, i) ==
    IF i > Len(tokens) \/ value = NoneV THEN value
    ELSE value_pointer(IF IsObject(value) THEN Get(value, tokens[i])
                 ELSE IF parse_index(tokens[i]) >= 0
                 THEN get_index(value, parse_index(tokens[i]))
                 ELSE NoneV,
                 tokens, i + 1)

\* normalize_pointer: the tokens of the pointer the path is turned into.
\* A path without a segment becomes "/", the pointer to the key "".
normalize_pointer(path) ==
    With(trim(path), LAMBDA trimmed :
        IF trimmed = "" THEN <<"">>
        ELSE IF trimmed \in AbsolutePaths THEN pointer_tokens(trimmed)
        ELSE IF dotted_segments(trimmed) = <<>> THEN <<"">>
        ELSE dotted_segments(trimmed))

\* Expr::lookup: the path is normalised to a JSON pointer into the context.
lookup(ctx, path) == value_pointer(ctx, normalize_pointer(path), 1)

\* The loop of fetch_nested from segment i on: a segment that parses as an
\* index reads an array, any other an object.
RECURSIVE fetch_segments(_, _, _)
fetch_segments(value, segments, i) ==
    IF i > Len(segments) \/ value = NoneV THEN value
    ELSE fetch_segments(IF parse_index(segments[i]) >= 0
                        THEN get_index(value, parse_index(segments[i]))
                        ELSE get_key(value, segments[i]),
                        segments, i + 1)

\* fetch_nested: a path that starts with '/' is a JSON pointer; any other
\* is walked by its dotted segments, and the empty path is the value.
fetch_nested(value, path) ==
    IF path \in AbsolutePaths THEN value_pointer(value, pointer_tokens(path), 1)
    ELSE fetch_segments(value, dotted_segments(path), 1)

\* Expr::lookup_answer: the path is fetched from the member "answers" of
\* the context, from the context itself when it has none.
lookup_answer(ctx, path) ==
    IF IsObject(ctx) /\ "answers" \in DOMAIN ctx
    THEN fetch_nested(ctx["answers"], path)
    ELSE fetch_nested(ctx, path)

\* str::to_lowercase on the strings of the model.
to_lowercase(text) == IF text = "No" THEN "no" ELSE text

\* The coercion of evaluate_bool, on a value already evaluated.
coerce_bool(value) ==
    CASE IsObject(value) -> NoneV
      [] value.t = "bool" -> value
      [] value.t = "num" -> Bool(value.n # 0)
      [] value.t = "str" ->
            IF to_lowercase(value.s) \in {"true", "t", "yes", "y", "1"}
            THEN Bool(TRUE)
            ELSE IF to_lowercase(value.s) \in {"false", "f", "no", "n", "0"}
            THEN Bool(FALSE)
            ELSE NoneV
      [] value.t = "null" -> Bool(FALSE)
      [] OTHER -> NoneV

\* compare_values ordering values of different types instead of refusing
\* them: the left one counts as less.
compare_values_any(left, right) ==
    CASE IsObject(left) \/ IsObject(right) ->
            IF left = right THEN "eq" ELSE "none"
      [] left.t = "num" /\ right.t = "num" ->
            IF left.n < right.n THEN "lt"
            ELSE IF left.n = right.n THEN "eq" ELSE "gt"
      [] left.t = "str" /\ right.t = "str" ->
            IF StrRank(left.s) < StrRank(right.s) THEN "lt"
            ELSE IF left.s = right.s THEN "eq" ELSE "gt"
      [] OTHER -> IF left = right THEN "eq" ELSE "lt"

\* Expr::compare_values: "lt", "eq", "gt", or "none" for incomparable values.
compare_values(left, right) ==
    CASE IsObject(left) \/ IsObject(right) ->
            IF left = right THEN "eq" ELSE "none"
      [] left.t = "num" /\ right.t = "num" ->
            IF left.n < right.n THEN "lt"
            ELSE IF left.n = right.n THEN "eq" ELSE "gt"
      [] left.t = "str" /\ right.t = "str" ->
            IF StrRank(left.s) < StrRank(right.s) THEN "lt"
            ELSE IF left.s = right.s THEN "eq" ELSE "gt"
      [] OTHER -> IF left = right THEN "eq" ELSE "none"

\* The predicate each ordering operator hands to evaluate_compare.
predicate(op, ordering) ==
    CASE op = "lt" -> ordering = "lt"
      [] op = "lte" -> ordering \in {"lt", "eq"}
      [] op = "gt" -> ordering = "gt"
      [] op = "gte" -> ordering \in {"gt", "eq"}

RECURSIVE evaluate_value(_, _)
evaluate_bool(expr, ctx) ==
    LET value == evaluate_value(expr, ctx)
    IN  IF IsSome(value) THEN coerce_bool(value) ELSE NoneV

\* evaluate_and giving None as soon as an operand is None, before any
\* false operand after it is looked at.
evaluate_and_none_first(expressions, ctx) ==
    LET bools == [i \in 1..Len(expressions) |-> evaluate_bool(expressions[i], ctx)]
    IN  IF \E i \in 1..Len(bools) :
                /\ bools[i] = NoneV
                /\ \A j \in 1..(i - 1) : bools[j] # Bool(FALSE)
        THEN NoneV
        ELSE IF \E i \in 1..Len(bools) : bools[i] = Bool(FALSE) THEN Bool(FALSE)
        ELSE Bool(TRUE)

\* Expr::evaluate_and: false as soon as an operand is false, else None when
\* an operand was None, else true.
evaluate_and(expressions, ctx) ==
    LET bools == [i \in 1..Len(expressions) |-> evaluate_bool(expressions[i], ctx)]
    IN  IF \E i \in 1..Len(bools) : bools[i] = Bool(FALSE) THEN Bool(FALSE)
        ELSE IF \E i \in 1..Len(bools) : bools[i] = NoneV THEN NoneV
        ELSE Bool(TRUE)

evaluate_or(expressions, ctx) ==
    LET bools == [i \in 1..Len(expressions) |-> evaluate_bool(expressions[i], ctx)]
    IN  IF \E i \in 1..Len(bools) : bools[i] = Bool(TRUE) THEN Bool(TRUE)
        ELSE IF \E i \in 1..Len(bools) : bools[i] = NoneV THEN NoneV
        ELSE Bool(FALSE)

evaluate_compare(op, left, right, ctx) ==
    LET left_value == evaluate_value(left, ctx)
        right_value == evaluate_value(right, ctx)
    IN  IF ~IsSome(left_value) \/ ~IsSome(right_value) THEN NoneV
        ELSE LET ordering == compare_values(left_value, right_value)
             IN  IF ordering = "none" THEN NoneV
                 ELSE Bool(predicate(op, ordering))

evaluate_value(expr, ctx) ==
    CASE expr.op = "literal" -> expr.value
      [] expr.op = "var" -> lookup(ctx, expr.path)
      [] expr.op = "answer" -> lookup_answer(ctx, expr.path)
      [] expr.op = "is_set" -> Bool(IsSome(lookup_answer(ctx, expr.path)))
      [] expr.op = "and" -> evaluate_and(expr.expressions, ctx)
      [] expr.op = "or" -> evaluate_or(expr.expressions, ctx)
      [] expr.op = "not" ->
            LET value == evaluate_bool(expr.expression, ctx)
            IN  IF IsSome(value) THEN Bool(value.n = 0) ELSE NoneV
      [] expr.op \in {"eq", "ne"} ->
            LET left_value == evaluate_value(expr.left, ctx)
                right_value == evaluate_value(expr.right, ctx)
            IN  IF ~IsSome(left_value) \/ ~IsSome(right_value) THEN NoneV
                ELSE Bool((left_value = right_value) = (expr.op = "eq"))
      [] expr.op \in {"lt", "lte", "gt", "gte"} ->
            evaluate_compare(expr.op, expr.left, expr.right, ctx)

----------------------------------------------------------------------------
(* Computed answers (computed.rs)                                          *)

\* One iteration of the loop keeping every value the map already holds,
\* whether the question is overridable or not.
computed_step_keep_supplied(map, question) ==
    IF question.computed = NoExpr THEN map
    ELSE IF question.id \in DOMAIN map THEN map
    ELSE LET value == evaluate_value(question.computed, build_expression_context(map))
         IN  IF IsSome(value) THEN Insert(map, question.id, value)
             ELSE Remove(map, question.id)

\* One iteration of the loop of apply_computed_answers on the map so far.
computed_step(map, question) ==
    IF question.computed = NoExpr THEN map
    ELSE IF question.id \in DOMAIN map /\ question.computed_overridable THEN map
    ELSE LET value == evaluate_value(question.computed, build_expression_context(map))
         IN  IF IsSome(value) THEN Insert(map, question.id, value)
             ELSE Remove(map, question.id)

RECURSIVE computed_loop(_, _, _)
computed_loop(questions, i, map) ==
    IF i > Len(questions) THEN map
    ELSE With(computed_step(map, questions[i]),
              LAMBDA next : computed_loop(questions, i + 1, next))

\* The loop with every expression evaluated against the answers as they
\* came in instead of the map derived so far.
RECURSIVE computed_loop_stale(_, _, _, _)
computed_loop_stale(questions, i, original, map) ==
    IF i > Len(questions) THEN map
    ELSE LET question == questions[i]
             value == evaluate_value(question.computed,
                                     build_expression_context(original))
             next ==
                IF question.computed = NoExpr THEN map
                ELSE IF question.id \in DOMAIN map /\ question.computed_overridable
                THEN map
                ELSE IF IsSome(value) THEN Insert(map, question.id, value)
                ELSE Remove(map, question.id)
         IN  computed_loop_stale(questions, i + 1, original, next)

apply_computed_answers_stale(spec, answers) ==
    computed_loop_stale(spec.questions, 1, as_object(answers), as_object(answers))

apply_computed_answers(spec, answers) ==
    computed_loop(spec.questions, 1, as_object(answers))

----------------------------------------------------------------------------
(* The form specification (spec/form.rs, spec/question.rs)                 *)

\* Option<usize> / Option<f64> of a constraint, and Option<String>.
NoNum == [some |-> FALSE, n |-> 0]
SomeNum(i) == [some |-> TRUE, n |-> i]
NoStr == [some |-> FALSE, s |-> ""]
SomeStr(x) == [some |-> TRUE, s |-> x]

\* Constraint.  A pattern is kept as the set of the model's strings the
\* regular expression matches.
NoConstraint ==
    [some |-> FALSE, has_pattern |-> FALSE, pattern |-> {},
     min |-> NoNum, max |-> NoNum, min_len |-> NoNum, max_len |-> NoNum]

\* Option<Vec<String>> of an enum question.
NoChoices == [some |-> FALSE, items |-> <<>>]
Choices(items) == [some |-> TRUE, items |-> items]

\* Option<ListSpec>: min_items and max_items are NoNum or SomeNum(..),
\* fields the questions of an entry.
NoList == [some |-> FALSE, min_items |-> NoNum, max_items |-> NoNum, fields |-> <<>>]
ListSpec(min_items, max_items, fields) ==
    [some |-> TRUE, min_items |-> min_items, max_items |-> max_items,
     fields |-> fields]

\* QuestionPolicy::default().
DefaultQuestionPolicy == [skip_if_present_in |-> {}, editable_if_from_default |-> FALSE]

\* A QuestionSpec with every optional field absent, as serde fills it in.
Question(id, kind) ==
    [id |-> id, kind |-> kind, required |-> FALSE, choices |-> NoChoices,
     default_value |-> NoStr, visible_if |-> NoExpr, constraint |-> NoConstraint,
     list |-> NoList, computed |-> NoExpr, computed_overridable |-> FALSE,
     policy |-> DefaultQuestionPolicy]

\* ProgressPolicy::default() and an absent Option<ProgressPolicy>.
DefaultProgressPolicy ==
    [skip_answered |-> TRUE, autofill_defaults |-> FALSE,
     treat_default_as_answered |-> FALSE]
NoProgressPolicy ==
    [some |-> FALSE, skip_answered |-> FALSE, autofill_defaults |-> FALSE,
     treat_default_as_answered |-> FALSE]

\* Option<&SecretsPolicy>::None.  allow and deny are sequences of globs.
NoSecretsPolicy ==
    [some |-> FALSE, enabled |-> FALSE, read_enabled |-> FALSE,
     write_enabled |-> FALSE, allow |-> <<>>, deny |-> <<>>]

\* IncludeSpec: prefix is NoStr or SomeStr(..).
IncludeSpec(form_ref, prefix) == [form_ref |-> form_ref, prefix |-> prefix]

\* CrossFieldValidation with the message "m" and the code Some("cross"):
\* id is NoStr or SomeStr(..).
CrossFieldValidation(id, fields, condition) ==
    [id |-> id, message |-> "m", fields |-> fields, condition |-> condition,
     code |-> "cross"]

\* A FormSpec without validations, store ops, includes and policies.
Form(id, questions) ==
    [id |-> id, questions |-> questions, validations |-> <<>>, store |-> <<>>,
     includes |-> <<>>,
     progress_policy |-> NoProgressPolicy, secrets_policy |-> NoSecretsPolicy]

\* All keys an object of the model can hold, in the key order of
\* serde_json's Map (a BTreeMap: lexicographic).
KeyOrder == <<"q1", "q2", "q3", "zz">>

\* map.keys().filter(pred).collect(): the keys of KeyOrder in `keys`, in order.
RECURSIVE keys_in_order(_, _)
keys_in_order(keys, i) ==
    IF i > Len(KeyOrder) THEN <<>>
    ELSE (IF KeyOrder[i] \in keys THEN <<KeyOrder[i]>> ELSE <<>>)
         \o keys_in_order(keys, i + 1)

----------------------------------------------------------------------------
(* Visibility (visibility.rs)                                              *)

\* The loop of resolve_visibility hiding a question whose visible_if has
\* no boolean value, whatever the mode.
RECURSIVE visibility_loop_none_hidden(_, _, _, _, _)
visibility_loop_none_hidden(questions, i, ctx, mode, map) ==
    IF i > Len(questions) THEN map
    ELSE LET question == questions[i]
             val == evaluate_bool(question.visible_if, ctx)
             visible ==
                IF question.visible_if # NoExpr
                THEN IF IsSome(val) THEN val.n = 1 ELSE FALSE
                ELSE TRUE
         IN  With(Insert(map, question.id, visible),
                  LAMBDA next :
                    visibility_loop_none_hidden(questions, i + 1, ctx, mode, next))

RECURSIVE visibility_loop(_, _, _, _, _)
visibility_loop(questions, i, ctx, mode, map) ==
    IF i > Len(questions) THEN map
    ELSE LET question == questions[i]
             val == evaluate_bool(question.visible_if, ctx)
             visible ==
                IF question.visible_if # NoExpr
                THEN IF IsSome(val) THEN val.n = 1
                     ELSE mode \in {"Visible", "Error"}
                ELSE TRUE
         IN  With(Insert(map, question.id, visible),
                  LAMBDA next : visibility_loop(questions, i + 1, ctx, mode, next))

resolve_visibility(spec, answers, mode) ==
    visibility_loop(spec.questions, 1, build_expression_context(answers), mode,
                    [k \in {} |-> TRUE])

\* visibility.get(&question.id).copied().unwrap_or(true)
is_visible(visibility, id) == IF id \in DOMAIN visibility THEN visibility[id] ELSE TRUE

----------------------------------------------------------------------------
(* Validation (validate.rs)                                                *)

\* A ValidationError; NoError stands for Option::None.
NoError == [question_id |-> "", path |-> "", message |-> "", code |-> "none"]

base_error(question, message, code) ==
    [question_id |-> question.id, path |-> "/" \o question.id,
     message |-> message, code |-> code]

matches_type(question, value) ==
    CASE question.kind \in {"string", "enum"} -> value.t = "str"
      [] question.kind = "boolean" -> value.t = "bool"
      [] question.kind \in {"integer", "number"} -> value.t = "num"
      [] question.kind = "list" -> value.t = "array"
      [] OTHER -> FALSE

enforce_constraint(question, value, constraint) ==
    IF constraint.has_pattern /\ value.t = "str" /\ value.s \notin constraint.pattern
    THEN base_error(question, "value does not match pattern",
                    "pattern_mismatch")
    ELSE IF constraint.min_len.some /\ value.t = "str"
            /\ Len(value.s) < constraint.min_len.n
    THEN base_error(question, "string shorter than min length",
                    "min_length")
    ELSE IF constraint.max_len.some /\ value.t = "str"
            /\ Len(value.s) > constraint.max_len.n
    THEN base_error(question, "string longer than max length",
                    "max_length")
    ELSE IF constraint.min.some /\ value.t = "num" /\ value.n < constraint.min.n
    THEN base_error(question, "value below minimum",
                    "min")
    ELSE IF constraint.max.some /\ value.t = "num" /\ value.n > constraint.max.n
    THEN base_error(question, "value above maximum",
                    "max")
    ELSE NoError

\* The decimal text of the index of a list entry.
IndexText == <<"0", "1", "2">>

\* usize::to_string on the counts of the model.
usize_text(count) ==
    CASE count = 0 -> "0" [] count = 1 -> "1" [] count = 2 -> "2"
      [] count = 3 -> "3" [] count = 4 -> "4" [] OTHER -> "5"

list_count_error(question, threshold, actual, message, code) ==
    [question_id |-> question.id, path |-> "/" \o question.id,
     message |-> message \o " (expected " \o usize_text(threshold) \o ", got "
                    \o usize_text(actual) \o ")",
     code |-> code]

RECURSIVE validate_value(_, _)

\* The field loop of validate_list on entry idx (counted from 0), from
\* field j on: the first missing required field or failing field value.
RECURSIVE validate_list_fields(_, _, _, _, _)
validate_list_fields(question, idx, entry_map, fields, j) ==
    IF j > Len(fields) THEN NoError
    ELSE LET field == fields[j]
             at == [question_id |-> question.id \o "[" \o IndexText[idx + 1] \o "]."
                                        \o field.id,
                    path |-> "/" \o question.id \o "/" \o IndexText[idx + 1] \o "/"
                                \o field.id]
         IN  IF field.id \notin DOMAIN entry_map
             THEN IF field.required
                  THEN [question_id |-> at.question_id, path |-> at.path,
                        message |-> "field '" \o field.id \o "' is required",
                        code |-> "missing_field"]
                  ELSE validate_list_fields(question, idx, entry_map, fields, j + 1)
             ELSE With(validate_value(field, entry_map[field.id]), LAMBDA error :
                    IF error # NoError
                    THEN [error EXCEPT !.question_id = at.question_id,
                                       !.path = at.path]
                    ELSE validate_list_fields(question, idx, entry_map, fields, j + 1))

\* The entry loop of validate_list from entry idx (counted from 0) on.
RECURSIVE validate_list_entries(_, _, _)
validate_list_entries(question, items, idx) ==
    IF idx >= Len(items) THEN NoError
    ELSE IF ~IsObject(items[idx + 1])
    THEN [question_id |-> question.id,
          path |-> "/" \o question.id \o "/" \o IndexText[idx + 1],
          message |-> "list entry must be an object",
          code |-> "entry_type"]
    ELSE With(validate_list_fields(question, idx, items[idx + 1],
                                   question.list.fields, 1), LAMBDA error :
            IF error # NoError THEN error
            ELSE validate_list_entries(question, items, idx + 1))

validate_list(question, value) ==
    IF ~question.list.some THEN base_error(question, "list fields are not defined",
                    "missing_list_definition")
    ELSE IF value.t # "array"
    THEN base_error(question, "list value must be an array", "list_type")
    ELSE IF question.list.min_items.some
            /\ Len(value.items) < question.list.min_items.n
    THEN list_count_error(question, question.list.min_items.n, Len(value.items),
                          "not enough list entries", "min_items")
    ELSE IF question.list.max_items.some
            /\ Len(value.items) > question.list.max_items.n
    THEN list_count_error(question, question.list.max_items.n, Len(value.items),
                          "too many list entries", "max_items")
    ELSE validate_list_entries(question, value.items, 0)

\* validate_value: the first failing check of type, list, constraint, enum.
validate_value(question, value) ==
    IF ~matches_type(question, value) THEN base_error(question, "type mismatch",
                    "type_mismatch")
    ELSE IF question.kind = "list" /\ validate_list(question, value) # NoError
    THEN validate_list(question, value)
    ELSE LET constraint_error ==
                IF question.constraint.some
                THEN enforce_constraint(question, value, question.constraint)
                ELSE NoError
         IN  IF constraint_error # NoError THEN constraint_error
             ELSE IF question.kind = "enum" /\ question.choices.some
                     /\ value.t = "str"
                     /\ ~(\E i \in 1..Len(question.choices.items) :
                             question.choices.items[i] = value.s)
             THEN base_error(question, "invalid enum option",
                    "enum_mismatch")
             ELSE NoError

\* The question loop of validate leaving at the first question that is
\* missing or in error.
RECURSIVE validate_questions_first_only(_, _, _, _, _)
validate_questions_first_only(questions, i, visibility, answers_map, acc) ==
    IF i > Len(questions) \/ acc.errors # <<>> \/ acc.missing_required # <<>>
    THEN acc
    ELSE LET question == questions[i]
             error == validate_value(question, answers_map[question.id])
             next ==
                IF ~is_visible(visibility, question.id) THEN acc
                ELSE IF question.id \notin DOMAIN answers_map
                THEN IF question.required
                     THEN [acc EXCEPT !.missing_required = Append(@, question.id)]
                     ELSE acc
                ELSE IF error # NoError
                THEN [acc EXCEPT !.errors = Append(@, error)]
                ELSE acc
         IN  With(next, LAMBDA acc1 :
                validate_questions_first_only(questions, i + 1, visibility,
                                              answers_map, acc1))

\* The question loop of validate checking the value supplied for a hidden
\* question; only a missing hidden question is passed over.
RECURSIVE validate_questions_hidden_values(_, _, _, _, _)
validate_questions_hidden_values(questions, i, visibility, answers_map, acc) ==
    IF i > Len(questions) THEN acc
    ELSE LET question == questions[i]
             error == validate_value(question, answers_map[question.id])
             next ==
                IF question.id \notin DOMAIN answers_map
                THEN IF question.required /\ is_visible(visibility, question.id)
                     THEN [acc EXCEPT !.missing_required = Append(@, question.id)]
                     ELSE acc
                ELSE IF error # NoError
                THEN [acc EXCEPT !.errors = Append(@, error)]
                ELSE acc
         IN  With(next, LAMBDA acc1 :
                validate_questions_hidden_values(questions, i + 1, visibility,
                                                 answers_map, acc1))

\* The question loop of validate: [errors, missing_required] so far.
RECURSIVE validate_questions(_, _, _, _, _)
validate_questions(questions, i, visibility, answers_map, acc) ==
    IF i > Len(questions) THEN acc
    ELSE LET question == questions[i]
             error == validate_value(question, answers_map[question.id])
             next ==
                IF ~is_visible(visibility, question.id) THEN acc
                ELSE IF question.id \notin DOMAIN answers_map
                THEN IF question.required
                     THEN [acc EXCEPT !.missing_required = Append(@, question.id)]
                     ELSE acc
                ELSE IF error # NoError
                THEN [acc EXCEPT !.errors = Append(@, error)]
                ELSE acc
         IN  With(next, LAMBDA acc1 :
                validate_questions(questions, i + 1, visibility, answers_map, acc1))

\* The cross-field loop of validate: one error per condition that is true.
RECURSIVE validate_cross_fields(_, _, _, _)
validate_cross_fields(validations, i, ctx, errors) ==
    IF i > Len(validations) THEN errors
    ELSE LET validation == validations[i]
             first == IF Len(validation.fields) > 0 THEN validation.fields[1] ELSE ""
             error ==
                [question_id |-> IF Len(validation.fields) > 0 THEN first
                                 ELSE validation.id,
                 path |-> IF Len(validation.fields) > 0 THEN "/" \o first ELSE "",
                 message |-> validation.message,
                 code |-> validation.code]
         IN  With(IF evaluate_bool(validation.condition, ctx) = Bool(TRUE)
                  THEN Append(errors, error) ELSE errors,
                  LAMBDA next : validate_cross_fields(validations, i + 1, ctx, next))

\* validate calling a result valid whatever its unknown fields are.
validate_unknown_tolerated(spec, answers) ==
    With(apply_computed_answers(spec, answers), LAMBDA computed_answers :
    With(resolve_visibility(spec, computed_answers, "Visible"), LAMBDA visibility :
    With(validate_questions(spec.questions, 1, visibility, computed_answers,
                            [errors |-> <<>>, missing_required |-> <<>>]),
         LAMBDA per_question :
    With({spec.questions[i].id : i \in 1..Len(spec.questions)}, LAMBDA all_ids :
    With(keys_in_order(DOMAIN computed_answers \ all_ids, 1), LAMBDA unknown_fields :
    With(validate_cross_fields(spec.validations, 1,
                               build_expression_context(computed_answers),
                               per_question.errors),
         LAMBDA errors :
        [valid |-> errors = <<>> /\ per_question.missing_required = <<>>,
         errors |-> errors,
         missing_required |-> per_question.missing_required,
         unknown_fields |-> unknown_fields]))))))

validate(spec, answers) ==
    With(apply_computed_answers(spec, answers), LAMBDA computed_answers :
    With(resolve_visibility(spec, computed_answers, "Visible"), LAMBDA visibility :
    With(validate_questions(spec.questions, 1, visibility, computed_answers,
                            [errors |-> <<>>, missing_required |-> <<>>]),
         LAMBDA per_question :
    With({spec.questions[i].id : i \in 1..Len(spec.questions)}, LAMBDA all_ids :
    With(keys_in_order(DOMAIN computed_answers \ all_ids, 1), LAMBDA unknown_fields :
    With(validate_cross_fields(spec.validations, 1,
                               build_expression_context(computed_answers),
                               per_question.errors),
         LAMBDA errors :
        [valid |-> errors = <<>> /\ per_question.missing_required = <<>>
                   /\ unknown_fields = <<>>,
         errors |-> errors,
         missing_required |-> per_question.missing_required,
         unknown_fields |-> unknown_fields]))))))

----------------------------------------------------------------------------
(* JSON trees of the runtime context and the store                         *)
(*                                                                         *)
(* A tree (config, state, payload_out, secrets, the store's answers) is    *)
(* kept flat: a function from the paths of its leaves to their values,     *)
(* a path being the sequence of object keys from the root.  The empty     *)
(* function is the empty object; a root that is itself a leaf has the     *)
(* single path <<>>.                                                       *)

EmptyTree == [p \in {} |-> NoneV]

\* The tree of an object whose members are leaves.
ObjToTree(obj) == [p \in {<<k>> : k \in DOMAIN obj} |-> obj[p[1]]]

\* The tree of any value: a value that is not an object is a leaf at the root.
ValueToTree(value) ==
    IF IsObject(value) THEN ObjToTree(value) ELSE [p \in {<<>>} |-> value]

\* a is a prefix of b (or equal to it).
IsPrefix(a, b) == Len(a) <= Len(b) /\ SubSeq(b, 1, Len(a)) = a

\* Value::get(key).is_some() on the root of a tree.
tree_has_key(tree, key) == \E p \in DOMAIN tree : Len(p) > 0 /\ p[1] = key

\* The runtime context with every member absent.
EmptyCtx ==
    [answers |-> EmptyTree, config |-> EmptyTree, state |-> EmptyTree,
     payload_out |-> EmptyTree, secrets |-> EmptyTree,
     secrets_host_available |-> NoneV]

----------------------------------------------------------------------------
(* Progress (progress.rs)                                                  *)

\* ProgressContext::new
ProgressContext(answers, ctx) ==
    [answers |-> as_object(answers), config |-> ctx.config, state |-> ctx.state,
     payload_out |-> ctx.payload_out, secrets |-> ctx.secrets]

has_target(pctx, target, key) ==
    CASE target = "Answers" -> key \in DOMAIN pctx.answers
      [] target = "Config" -> tree_has_key(pctx.config, key)
      [] target = "State" -> tree_has_key(pctx.state, key)
      [] target = "PayloadOut" -> tree_has_key(pctx.payload_out, key)
      [] target = "Secrets" -> tree_has_key(pctx.secrets, key)

\* spec.progress_policy.as_ref().copied().unwrap_or_default()
policy_or_default(progress_policy) ==
    IF progress_policy.some
    THEN [skip_answered |-> progress_policy.skip_answered,
          autofill_defaults |-> progress_policy.autofill_defaults,
          treat_default_as_answered |-> progress_policy.treat_default_as_answered]
    ELSE DefaultProgressPolicy

is_answered(question, pctx, policy) ==
    IF question.id \in DOMAIN pctx.answers THEN TRUE
    ELSE IF policy.autofill_defaults /\ question.default_value.some
    THEN IF question.policy.editable_if_from_default THEN FALSE
         ELSE policy.treat_default_as_answered
    ELSE FALSE

\* should_skip looking only at answered questions, not at the targets of
\* skip_if_present_in.
should_skip_answered_only(question, pctx, policy) ==
    policy.skip_answered /\ is_answered(question, pctx, policy)

should_skip(question, pctx, policy) ==
    IF \E target \in question.policy.skip_if_present_in :
            has_target(pctx, target, question.id)
    THEN TRUE
    ELSE policy.skip_answered /\ is_answered(question, pctx, policy)

\* next_question: the id of the first visible question that is not skipped,
\* NoStr when there is none.
RECURSIVE next_question_loop(_, _, _, _, _)
next_question_loop(questions, i, pctx, visibility, policy) ==
    IF i > Len(questions) THEN NoStr
    ELSE IF ~is_visible(visibility, questions[i].id)
            \/ should_skip(questions[i], pctx, policy)
    THEN next_question_loop(questions, i + 1, pctx, visibility, policy)
    ELSE SomeStr(questions[i].id)

next_question(spec, pctx, visibility) ==
    next_question_loop(spec.questions, 1, pctx, visibility,
                       policy_or_default(spec.progress_policy))

\* ProgressContext::answered_count
\* answered_count counting the answered questions that are hidden too.
answered_count_hidden_too(pctx, spec, visibility) ==
    Cardinality({i \in 1..Len(spec.questions) :
        is_answered(spec.questions[i], pctx,
                    policy_or_default(spec.progress_policy))})

answered_count(pctx, spec, visibility) ==
    Cardinality({i \in 1..Len(spec.questions) :
        /\ is_visible(visibility, spec.questions[i].id)
        /\ is_answered(spec.questions[i], pctx,
                       policy_or_default(spec.progress_policy))})

----------------------------------------------------------------------------
(* Render payload (render.rs)                                              *)

build_render_payload(spec, ctx, answers) ==
    With(apply_computed_answers(spec, answers), LAMBDA computed_answers :
    With(resolve_visibility(spec, computed_answers, "Visible"), LAMBDA visibility :
    With(ProgressContext(computed_answers, ctx), LAMBDA progress_ctx :
    With(next_question(spec, progress_ctx, visibility), LAMBDA next_question_id :
    With(answered_count(progress_ctx, spec, visibility), LAMBDA answered :
    With(Cardinality({k \in DOMAIN visibility : visibility[k]}), LAMBDA total :
        [form_id |-> spec.id,
         status |-> IF next_question_id.some THEN "need_input" ELSE "complete",
         next_question_id |-> next_question_id,
         progress |-> [answered |-> answered, total |-> total],
         questions |->
            [i \in 1..Len(spec.questions) |->
                [id |-> spec.questions[i].id,
                 kind |-> spec.questions[i].kind,
                 required |-> spec.questions[i].required,
                 visible |-> is_visible(visibility, spec.questions[i].id),
                 current_value |-> Get(computed_answers, spec.questions[i].id)]]
        ]))))))

----------------------------------------------------------------------------
(* Runner: the planners (runner.rs)                                        *)

\* The rendered error strings of a plan.
RECURSIVE format_errors(_, _)
format_errors(errors, i) ==
    IF i > Len(errors) THEN <<>>
    ELSE <<errors[i].path \o ": " \o errors[i].message>> \o format_errors(errors, i + 1)

RECURSIVE format_fields(_, _, _)
format_fields(label, fields, i) ==
    IF i > Len(fields) THEN <<>>
    ELSE <<label \o fields[i]>> \o format_fields(label, fields, i + 1)

\* build_plan handing out the form's store ops whatever the validation says.
build_plan_effects_always(spec, ctx, answers) ==
    [plan_version |-> 1,
     form_id |-> spec.id,
     validated_patch |-> answers,
     validation |-> validate(spec, answers),
     payload |-> build_render_payload(spec, ctx, answers),
     effects |-> spec.store,
     warnings |-> <<>>,
     errors |-> <<>>]

build_plan(spec, ctx, answers) ==
    With(validate(spec, answers), LAMBDA validation :
    With(build_render_payload(spec, ctx, answers), LAMBDA payload :
    With(IF validation.valid THEN spec.store ELSE <<>>, LAMBDA effects :
    With(IF ~validation.valid
         THEN format_errors(validation.errors, 1)
              \o format_fields("missing required: ", validation.missing_required, 1)
              \o format_fields("unknown field: ", validation.unknown_fields, 1)
         ELSE <<>>,
         LAMBDA errors :
        [plan_version |-> 1,
         form_id |-> spec.id,
         validated_patch |-> answers,
         validation |-> validation,
         payload |-> payload,
         effects |-> effects,
         warnings |-> <<>>,
         errors |-> errors]))))

normalize_answers(answers) == as_object(answers)

\* plan_submit_patch keeping the patch out of the validated_patch of an
\* invalid plan.
plan_submit_patch_validated_only(spec, ctx, answers, question_id, value) ==
    With(build_plan(spec, ctx, Insert(as_object(answers), question_id, value)),
         LAMBDA plan :
            IF plan.validation.valid THEN plan
            ELSE [plan EXCEPT !.validated_patch = as_object(answers)])

plan_submit_patch(spec, ctx, answers, question_id, value) ==
    With(Insert(as_object(answers), question_id, value), LAMBDA patched :
        build_plan(spec, ctx, patched))

plan_submit_all(spec, ctx, answers) == build_plan(spec, ctx, answers)

plan_next(spec, ctx, answers) ==
    With(normalize_answers(answers), LAMBDA normalized :
        build_plan(spec, ctx, normalized))

----------------------------------------------------------------------------
(* Secrets policy (secrets.rs)                                             *)
(*                                                                         *)
(* A secret key is the sequence of its '/'-separated segments.  A glob is  *)
(* a sequence of segments too: a literal segment matches itself, the       *)
(* segment "*" matches any text, '/' included (globset's default), so one  *)
(* or more whole segments, and the pattern <<"[">> does not compile.       *)

RECURSIVE glob_match(_, _)
glob_match(pattern, key) ==
    IF pattern = <<>> THEN key = <<>>
    ELSE IF key = <<>> THEN FALSE
    ELSE IF Head(pattern) = "*"
    THEN \E n \in 1..Len(key) :
            glob_match(Tail(pattern), SubSeq(key, n + 1, Len(key)))
    ELSE Head(pattern) = Head(key) /\ glob_match(Tail(pattern), Tail(key))

\* matches_pattern: a pattern that does not compile matches nothing.
matches_pattern(pattern, key) ==
    IF pattern = <<"[">> THEN FALSE ELSE glob_match(pattern, key)

matches_any(patterns, key) ==
    \E i \in 1..Len(patterns) : matches_pattern(patterns[i], key)

Allowed == [kind |-> "Allowed", code |-> ""]
Denied(code) == [kind |-> "Denied", code |-> code]
HostUnavailable == [kind |-> "HostUnavailable", code |-> ""]

\* evaluate with the host flag consulted before the policy.
evaluate_host_first(policy, key, action, host_available) ==
    IF ~host_available THEN HostUnavailable
    ELSE IF ~(policy.some /\ policy.enabled) THEN Denied("secret_access_denied")
    ELSE IF ~(IF action = "Read" THEN policy.read_enabled ELSE policy.write_enabled)
    THEN Denied("secret_access_denied")
    ELSE IF matches_any(policy.deny, key) THEN Denied("secret_access_denied")
    ELSE IF policy.allow = <<>> \/ ~matches_any(policy.allow, key)
    THEN Denied("secret_access_denied")
    ELSE Allowed

evaluate(policy, key, action, host_available) ==
    IF ~(policy.some /\ policy.enabled) THEN Denied("secret_access_denied")
    ELSE IF ~(IF action = "Read" THEN policy.read_enabled ELSE policy.write_enabled)
    THEN Denied("secret_access_denied")
    ELSE IF matches_any(policy.deny, key) THEN Denied("secret_access_denied")
    ELSE IF policy.allow = <<>> \/ ~matches_any(policy.allow, key)
    THEN Denied("secret_access_denied")
    ELSE IF ~host_available THEN HostUnavailable
    ELSE Allowed

----------------------------------------------------------------------------
(* Store (store.rs)                                                        *)
(*                                                                         *)
(* A pointer is the sequence of the segments set_path splits it into       *)
(* after trimming the leading slashes; the empty pointer "" is <<>> and    *)
(* "/" is <<"">>.  Op values are leaves.                                   *)

\* decode_segment: "~1" -> "/", then "~0" -> "~", on the model's segments.
decode_segment(segment) ==
    CASE segment = "a~1b" -> "a/b"
      [] segment = "~0" -> "~"
      [] OTHER -> segment

decode_segments(pointer) == [i \in 1..Len(pointer) |-> decode_segment(pointer[i])]

\* set_path: the empty pointer replaces the root; otherwise every value on
\* the way that is not an object is replaced by an object, and the last
\* segment is inserted, replacing what was there.  It never fails: a
\* pointer that is not empty splits into at least one segment.
set_path(root, pointer, value) ==
    IF pointer = <<>> THEN [p \in {<<>>} |-> value]
    ELSE LET segments == decode_segments(pointer)
             kept == {p \in DOMAIN root :
                        ~IsPrefix(p, segments) /\ ~IsPrefix(segments, p)}
         IN  [p \in kept \cup {segments} |->
                IF p = segments THEN value ELSE root[p]]

\* secret_key: the pointer without its leading slashes, NoneV (the
\* InvalidPointer error) when nothing is left.
secret_key(pointer) ==
    IF pointer = <<>> \/ pointer = <<"">> THEN NoneV ELSE pointer

Ok == [kind |-> "Ok", key |-> <<>>, code |-> ""]
InvalidPointer == [kind |-> "InvalidPointer", key |-> <<>>, code |-> ""]
SecretAccessDenied(key, code) ==
    [kind |-> "SecretAccessDenied", key |-> key, code |-> code]
SecretHostUnavailable == [kind |-> "SecretHostUnavailable", key |-> <<>>, code |-> ""]

\* StoreContext::from_value: each member of ctx, the empty object if absent.
StoreContext_from_value(ctx) ==
    [answers |-> ctx.answers, state |-> ctx.state, config |-> ctx.config,
     payload_out |-> ctx.payload_out, secrets |-> ctx.secrets]

\* An op that writes the secret before the policy is asked.
apply_op_write_first(store, op, policy, host_available) ==
    CASE op.target = "Answers" ->
            [store |-> [store EXCEPT !.answers = set_path(@, op.path, op.value)],
             result |-> Ok]
      [] op.target = "State" ->
            [store |-> [store EXCEPT !.state = set_path(@, op.path, op.value)],
             result |-> Ok]
      [] op.target = "Config" ->
            [store |-> [store EXCEPT !.config = set_path(@, op.path, op.value)],
             result |-> Ok]
      [] op.target = "PayloadOut" ->
            [store |-> [store EXCEPT !.payload_out = set_path(@, op.path, op.value)],
             result |-> Ok]
      [] op.target = "Secrets" ->
            With(secret_key(op.path), LAMBDA key :
                IF key = NoneV THEN [store |-> store, result |-> InvalidPointer]
                ELSE With(evaluate(policy, key, "Write", host_available),
                          LAMBDA access :
                    [store |-> [store EXCEPT
                                   !.secrets = set_path(@, op.path, op.value)],
                     result |-> IF access.kind = "Allowed" THEN Ok
                                ELSE IF access.kind = "Denied"
                                THEN SecretAccessDenied(key, access.code)
                                ELSE SecretHostUnavailable]))

\* One op of apply_ops: the context after it and Ok, or the context as it
\* was and the error the op returns with.
apply_op(store, op, policy, host_available) ==
    CASE op.target = "Answers" ->
            [store |-> [store EXCEPT !.answers = set_path(@, op.path, op.value)],
             result |-> Ok]
      [] op.target = "State" ->
            [store |-> [store EXCEPT !.state = set_path(@, op.path, op.value)],
             result |-> Ok]
      [] op.target = "Config" ->
            [store |-> [store EXCEPT !.config = set_path(@, op.path, op.value)],
             result |-> Ok]
      [] op.target = "PayloadOut" ->
            [store |-> [store EXCEPT !.payload_out = set_path(@, op.path, op.value)],
             result |-> Ok]
      [] op.target = "Secrets" ->
            With(secret_key(op.path), LAMBDA key :
                IF key = NoneV THEN [store |-> store, result |-> InvalidPointer]
                ELSE With(evaluate(policy, key, "Write", host_available),
                          LAMBDA access :
                    IF access.kind = "Allowed"
                    THEN [store |-> [store EXCEPT
                                        !.secrets = set_path(@, op.path, op.value)],
                          result |-> Ok]
                    ELSE IF access.kind = "Denied"
                    THEN [store |-> store,
                          result |-> SecretAccessDenied(key, access.code)]
                    ELSE [store |-> store, result |-> SecretHostUnavailable]))

\* The loop going on to the next op after an op has failed, and returning
\* the first error at the end.
RECURSIVE apply_ops_from_continue(_, _, _, _, _, _)
apply_ops_from_continue(store, ops, i, policy, host_available, first_error) ==
    IF i > Len(ops) THEN [store |-> store, result |-> first_error]
    ELSE With(apply_op(store, ops[i], policy, host_available), LAMBDA step :
            apply_ops_from_continue(step.store, ops, i + 1, policy, host_available,
                IF first_error = Ok THEN step.result ELSE first_error))

apply_ops_continue(store, ops, policy, host_available) ==
    apply_ops_from_continue(store, ops, 1, policy, host_available, Ok)

\* The loop of apply_ops from op i on: it returns at the first op that
\* fails, with the context as the ops before it left it.
RECURSIVE apply_ops_from(_, _, _, _, _)
apply_ops_from(store, ops, i, policy, host_available) ==
    IF i > Len(ops) THEN [store |-> store, result |-> Ok]
    ELSE With(apply_op(store, ops[i], policy, host_available), LAMBDA step :
            IF step.result # Ok THEN step
            ELSE apply_ops_from(step.store, ops, i + 1, policy, host_available))

\* StoreContext::apply_ops(&mut self, ops, policy, host_available)
apply_ops(store, ops, policy, host_available) ==
    apply_ops_from(store, ops, 1, policy, host_available)

\* execute_plan_effects without the check of plan.is_valid().
execute_plan_effects_unchecked(plan, store, secrets_policy, secrets_host_available) ==
    apply_ops([store EXCEPT !.answers = ValueToTree(plan.validated_patch)],
              plan.effects, secrets_policy, secrets_host_available)

\* execute_plan_effects(plan, &mut store_ctx, secrets_policy, host_available)
execute_plan_effects(plan, store, secrets_policy, secrets_host_available) ==
    IF ~plan.validation.valid THEN [store |-> store, result |-> Ok]
    ELSE With([store EXCEPT !.answers = ValueToTree(plan.validated_patch)],
              LAMBDA replaced :
            apply_ops(replaced, plan.effects, secrets_policy, secrets_host_available))

----------------------------------------------------------------------------
(* Include composition (compose.rs)                                        *)

IncludeOk(expanded, seen_ids) ==
    [kind |-> "Ok", form |-> expanded, seen_ids |-> seen_ids, chain |-> <<>>,
     detail |-> ""]
MissingIncludeTarget(form_ref) ==
    [kind |-> "MissingIncludeTarget", form |-> NoneV, seen_ids |-> {},
     chain |-> <<>>, detail |-> form_ref]
IncludeCycleDetected(chain) ==
    [kind |-> "IncludeCycleDetected", form |-> NoneV, seen_ids |-> {},
     chain |-> chain, detail |-> ""]
DuplicateQuestionId(question_id) ==
    [kind |-> "DuplicateQuestionId", form |-> NoneV, seen_ids |-> {},
     chain |-> <<>>, detail |-> question_id]

prefix_path(prefix, path) ==
    IF path = "" \/ path \in AbsolutePaths \/ prefix = "" THEN path
    ELSE prefix \o "." \o path

prefix_key(prefix, key) == IF prefix = "" THEN key ELSE prefix \o "." \o key

\* combine_prefix(parent, child): child is NoStr or SomeStr(..).
combine_prefix(parent, child) ==
    LET given == IF child.some THEN child.s ELSE ""
    IN  CASE parent = "" /\ given = "" -> ""
          [] parent # "" /\ given = "" -> parent
          [] parent = "" /\ given # "" -> given
          [] OTHER -> parent \o "." \o given

\* prefix_expr rewriting the path of an outermost Answer or IsSet only.
prefix_expr_shallow(expr, prefix) ==
    CASE expr.op = "answer" -> Answer(prefix_path(prefix, expr.path))
      [] expr.op = "is_set" -> IsSet(prefix_path(prefix, expr.path))
      [] OTHER -> expr

RECURSIVE prefix_expr(_, _)
prefix_expr(expr, prefix) ==
    CASE expr.op = "answer" -> Answer(prefix_path(prefix, expr.path))
      [] expr.op = "is_set" -> IsSet(prefix_path(prefix, expr.path))
      [] expr.op \in {"and", "or"} ->
            [expr EXCEPT !.expressions =
                [i \in 1..Len(@) |-> prefix_expr(@[i], prefix)]]
      [] expr.op = "not" ->
            [expr EXCEPT !.expression = prefix_expr(@, prefix)]
      [] expr.op \in {"eq", "ne", "lt", "lte", "gt", "gte"} ->
            [expr EXCEPT !.left = prefix_expr(@, prefix),
                         !.right = prefix_expr(@, prefix)]
      [] OTHER -> expr

\* Option<Expr>::map(prefix_expr)
prefix_optional_expr(expr, prefix) ==
    IF expr = NoExpr THEN NoExpr ELSE prefix_expr(expr, prefix)

apply_prefix_validation(validation, prefix) ==
    IF prefix = "" THEN validation
    ELSE [validation EXCEPT
            !.id = IF @.some THEN SomeStr(prefix_key(prefix, @.s)) ELSE @,
            !.fields = [i \in 1..Len(@) |-> prefix_key(prefix, @[i])],
            !.condition = prefix_expr(@, prefix)]

\* apply_prefix_question putting the separator before the id even when
\* there is no prefix.
RECURSIVE apply_prefix_question(_, _)
apply_prefix_question_unguarded(question, prefix) ==
    [question EXCEPT
        !.id = prefix \o "." \o @,
        !.visible_if = prefix_optional_expr(@, prefix),
        !.computed = prefix_optional_expr(@, prefix),
        !.list.fields = [i \in 1..Len(@) |-> apply_prefix_question(@[i], prefix)]]

apply_prefix_question(question, prefix) ==
    IF prefix = "" THEN question
    ELSE [question EXCEPT
            !.id = prefix_key(prefix, @),
            !.visible_if = prefix_optional_expr(@, prefix),
            !.computed = prefix_optional_expr(@, prefix),
            !.list.fields = [i \in 1..Len(@) |-> apply_prefix_question(@[i], prefix)]]

\* The question loop of expand_form pushing every question, seen or not.
RECURSIVE expand_questions_unchecked(_, _, _, _, _)
expand_questions_unchecked(questions, i, prefix, pushed, seen_ids) ==
    IF i > Len(questions) THEN [kind |-> "Ok", questions |-> pushed,
                                seen_ids |-> seen_ids, detail |-> ""]
    ELSE With(apply_prefix_question(questions[i], prefix), LAMBDA question :
            expand_questions_unchecked(questions, i + 1, prefix,
                                       Append(pushed, question),
                                       seen_ids \cup {question.id}))

\* The question loop of expand_form from question i on: the questions
\* pushed so far and the ids seen, or DuplicateQuestionId for the first id
\* that seen_ids already holds.
RECURSIVE expand_questions(_, _, _, _, _)
expand_questions(questions, i, prefix, pushed, seen_ids) ==
    IF i > Len(questions) THEN [kind |-> "Ok", questions |-> pushed,
                                seen_ids |-> seen_ids, detail |-> ""]
    ELSE With(apply_prefix_question(questions[i], prefix), LAMBDA question :
            IF question.id \in seen_ids
            THEN [kind |-> "DuplicateQuestionId", questions |-> pushed,
                  seen_ids |-> seen_ids, detail |-> question.id]
            ELSE expand_questions(questions, i + 1, prefix,
                                  Append(pushed, question),
                                  seen_ids \cup {question.id}))

RECURSIVE expand_form(_, _, _, _, _)

\* The include loop of expand_form leaving the id of every included form
\* on the chain for the includes that follow.
RECURSIVE expand_form_includes_chain_kept(_, _, _, _, _, _, _)
expand_form_includes_chain_kept(form_, i, prefix, registry, chain, seen_ids, expanded) ==
    IF i > Len(form_.includes) THEN IncludeOk(expanded, seen_ids)
    ELSE With(form_.includes[i], LAMBDA include :
            IF include.form_ref \notin DOMAIN registry
            THEN MissingIncludeTarget(include.form_ref)
            ELSE With(expand_form(registry[include.form_ref],
                                  combine_prefix(prefix, include.prefix),
                                  registry, chain, seen_ids),
                      LAMBDA nested :
                    IF nested.kind # "Ok" THEN nested
                    ELSE expand_form_includes_chain_kept(form_, i + 1, prefix,
                            registry,
                            Append(chain, registry[include.form_ref].id),
                            nested.seen_ids,
                            [expanded EXCEPT
                                !.questions = @ \o nested.form.questions,
                                !.validations = @ \o nested.form.validations])))

\* The include loop of expand_form from include i on; expanded is the
\* form built so far.
RECURSIVE expand_form_includes(_, _, _, _, _, _, _)
expand_form_includes(form_, i, prefix, registry, chain, seen_ids, expanded) ==
    IF i > Len(form_.includes) THEN IncludeOk(expanded, seen_ids)
    ELSE With(form_.includes[i], LAMBDA include :
            IF include.form_ref \notin DOMAIN registry
            THEN MissingIncludeTarget(include.form_ref)
            ELSE With(expand_form(registry[include.form_ref],
                                  combine_prefix(prefix, include.prefix),
                                  registry, chain, seen_ids),
                      LAMBDA nested :
                    IF nested.kind # "Ok" THEN nested
                    ELSE expand_form_includes(form_, i + 1, prefix, registry, chain,
                            nested.seen_ids,
                            [expanded EXCEPT
                                !.questions = @ \o nested.form.questions,
                                !.validations = @ \o nested.form.validations])))

\* expand_form after the cycle check: chain is the chain with form.id
\* pushed; the pop at the end leaves the caller's chain as it was.
expand_form_entered(form_, prefix, registry, chain, seen_ids) ==
    With(expand_questions(form_.questions, 1, prefix, <<>>, seen_ids),
         LAMBDA own :
            IF own.kind # "Ok" THEN DuplicateQuestionId(own.detail)
            ELSE expand_form_includes(form_, 1, prefix, registry, chain,
                    own.seen_ids,
                    [form_ EXCEPT
                        !.questions = own.questions,
                        !.validations =
                            [i \in 1..Len(@) |-> apply_prefix_validation(@[i], prefix)],
                        !.includes = <<>>]))

\* The position of the first occurrence of id in chain.
position(chain, id) ==
    CHOOSE start \in 1..Len(chain) :
        /\ chain[start] = id
        /\ \A k \in 1..(start - 1) : chain[k] # id

\* expand_form reporting the chain without the id that closes the cycle.
expand_form_open_chain(form_, prefix, registry, chain, seen_ids) ==
    IF \E k \in 1..Len(chain) : chain[k] = form_.id
    THEN IncludeCycleDetected(SubSeq(chain, position(chain, form_.id), Len(chain)))
    ELSE expand_form_entered(form_, prefix, registry, Append(chain, form_.id),
                             seen_ids)

expand_form(form_, prefix, registry, chain, seen_ids) ==
    IF \E k \in 1..Len(chain) : chain[k] = form_.id
    THEN IncludeCycleDetected(
            Append(SubSeq(chain, position(chain, form_.id), Len(chain)), form_.id))
    ELSE expand_form_entered(form_, prefix, registry, Append(chain, form_.id),
                             seen_ids)

\* expand_includes(root, registry): the Result without the ids seen.
expand_includes(root, registry) ==
    With(expand_form(root, "", registry, <<>>, {}), LAMBDA result :
        [kind |-> result.kind, form |-> result.form, chain |-> result.chain,
         detail |-> result.detail])

----------------------------------------------------------------------------
(* component-qa: the submission entry points (component-qa/src/lib.rs)     *)
(* on a form already resolved and on parsed JSON arguments.                *)

\* secrets_host_available(ctx): the boolean ctx.secrets_host_available,
\* else the boolean ctx.config.secrets_host_available, else false.
secrets_host_available(ctx) ==
    IF ctx.secrets_host_available.t = "bool"
    THEN ctx.secrets_host_available.n = 1
    ELSE IF <<"secrets_host_available">> \in DOMAIN ctx.config
            /\ ctx.config[<<"secrets_host_available">>].t = "bool"
    THEN ctx.config[<<"secrets_host_available">>].n = 1
    ELSE FALSE

\* StoreContext::to_value: the five members under their names.
to_value(store) ==
    [answers |-> store.answers, state |-> store.state, config |-> store.config,
     payload_out |-> store.payload_out, secrets |-> store.secrets]

\* respond(Err(err)): the JSON object {"error": ...} and nothing else.
respond_error(err) == [error |-> err]

submission_progress(payload) ==
    [answered |-> payload.progress.answered, total |-> payload.progress.total]

build_error_response(payload, answers, validation) ==
    [status |-> "error",
     next_question_id |-> payload.next_question_id,
     progress |-> submission_progress(payload),
     answers |-> answers,
     validation |-> validation]

\* build_success_response reporting complete whatever the payload asks next.
build_success_response_complete(payload, answers, store) ==
    [status |-> "complete",
     next_question_id |-> payload.next_question_id,
     progress |-> submission_progress(payload),
     answers |-> answers,
     store |-> to_value(store)]

build_success_response(payload, answers, store) ==
    [status |-> IF payload.next_question_id.some THEN "need_input" ELSE "complete",
     next_question_id |-> payload.next_question_id,
     progress |-> submission_progress(payload),
     answers |-> answers,
     store |-> to_value(store)]

build_submission_plan(spec, ctx, answers) ==
    With(validate(spec, answers), LAMBDA validation :
    With(build_render_payload(spec, ctx, answers), LAMBDA payload :
    With(IF validation.valid THEN spec.store ELSE <<>>, LAMBDA effects :
        [validated_patch |-> answers,
         validation |-> validation,
         payload |-> payload,
         effects |-> effects])))

\* The tail submit_patch and submit_all share: the error response of an
\* invalid plan, else the effects applied to a fresh StoreContext.
submit_plan(spec, ctx, plan) ==
    IF ~plan.validation.valid
    THEN build_error_response(plan.payload, plan.validated_patch, plan.validation)
    ELSE With([StoreContext_from_value(ctx) EXCEPT
                  !.answers = ValueToTree(plan.validated_patch)], LAMBDA fresh :
         With(apply_ops(fresh, plan.effects, spec.secrets_policy,
                        secrets_host_available(ctx)), LAMBDA applied :
            IF applied.result # Ok THEN respond_error(applied.result)
            ELSE build_success_response(plan.payload, plan.validated_patch,
                                        applied.store)))

submit_patch(spec, ctx, answers, question_id, value) ==
    With(Insert(as_object(answers), question_id, value), LAMBDA patched :
    With(build_submission_plan(spec, ctx, patched), LAMBDA plan :
        submit_plan(spec, ctx, plan)))

submit_all(spec, ctx, answers) ==
    With(build_submission_plan(spec, ctx, answers), LAMBDA plan :
        submit_plan(spec, ctx, plan))

apply_store(spec, ctx, answers) ==
    With([StoreContext_from_value(ctx) EXCEPT !.answers = ValueToTree(answers)],
         LAMBDA fresh :
    With(apply_ops(fresh, spec.store, spec.secrets_policy,
                   secrets_host_available(ctx)), LAMBDA applied :
        IF applied.result # Ok THEN respond_error(applied.result)
        ELSE to_value(applied.store)))

\* render_json_ui(form_id, config_json, ctx_json, answers_json): the
\* payload of build_render_payload as a JSON object.
render_json_ui(spec, ctx, answers) ==
    With(build_render_payload(spec, ctx, answers), LAMBDA payload :
        [form_id |-> payload.form_id,
         status |-> payload.status,
         next_question_id |-> payload.next_question_id,
         progress |-> [answered |-> payload.progress.answered,
                       total |-> payload.progress.total],
         questions |-> payload.questions])

----------------------------------------------------------------------------
(* qa-lib: the wizard driver (qa-lib/src/lib.rs)                           *)

\* parse_component_result: Err for the object {"error": "..."}.
is_component_error(value) == "error" \in DOMAIN value

\* normalize_answers of qa-lib: an object as it is, else the empty object.
driver_normalize_answers(value) == IF IsObject(value) THEN value ELSE EmptyObj

\* WizardDriver::new(config) with config.initial_answers_json = initial
\* (NoneV when absent).
WizardDriver_new(initial) ==
    [answers |-> IF initial = NoneV THEN EmptyObj
                 ELSE driver_normalize_answers(initial),
     complete |-> FALSE,
     last_ui_json |-> NoneV]

DriverOk(value) == [kind |-> "Ok", value |-> value]
DriverErr(error) == [kind |-> "Err", value |-> error]

\* WizardDriver::next_payload_json with the JsonUi frontend: the driver
\* after the call and what the call returns.
next_payload_json(self, spec, ctx) ==
    With(render_json_ui(spec, ctx, self.answers), LAMBDA ui_value :
        [driver |-> [self EXCEPT !.complete = (ui_value.status = "complete"),
                                 !.last_ui_json = ui_value],
         result |-> DriverOk(ui_value)])

\* The loop of submit_patch_json submitting every key after the first
\* against empty answers instead of the answers the driver holds by then.
RECURSIVE submit_patch_loop_from_start(_, _, _, _, _, _, _)
submit_patch_loop_from_start(self, spec, ctx, patch, keys, i, last_value) ==
    IF i > Len(keys)
    THEN [driver |-> self,
          result |-> DriverOk([status |-> last_value.status,
                               response_json |-> last_value])]
    ELSE With(submit_patch(spec, ctx, IF i = 1 THEN self.answers ELSE EmptyObj,
                           keys[i], patch[keys[i]]),
              LAMBDA submit_value :
            IF is_component_error(submit_value)
            THEN [driver |-> self,
                  result |-> DriverErr([kind |-> "Component",
                                        error |-> submit_value.error])]
            ELSE With([self EXCEPT
                        !.answers = driver_normalize_answers(submit_value.answers),
                        !.complete = @ \/ submit_value.status = "complete"],
                      LAMBDA next :
                    submit_patch_loop_from_start(next, spec, ctx, patch, keys, i + 1,
                                                 submit_value)))

\* The loop of submit_patch_json over the keys of the patch from key i on,
\* in the order of the map: each key is submitted against the answers the
\* driver holds by then.
RECURSIVE submit_patch_loop(_, _, _, _, _, _, _)
submit_patch_loop(self, spec, ctx, patch, keys, i, last_value) ==
    IF i > Len(keys)
    THEN [driver |-> self,
          result |-> DriverOk([status |-> last_value.status,
                               response_json |-> last_value])]
    ELSE With(submit_patch(spec, ctx, self.answers, keys[i], patch[keys[i]]),
              LAMBDA submit_value :
            IF is_component_error(submit_value)
            THEN [driver |-> self,
                  result |-> DriverErr([kind |-> "Component",
                                        error |-> submit_value.error])]
            ELSE With([self EXCEPT
                        !.answers = driver_normalize_answers(submit_value.answers),
                        !.complete = @ \/ submit_value.status = "complete"],
                      LAMBDA next :
                    submit_patch_loop(next, spec, ctx, patch, keys, i + 1,
                                      submit_value)))

\* WizardDriver::submit_patch_json(patch_json) on the parsed patch.
submit_patch_json(self, spec, ctx, patch) ==
    IF ~IsObject(patch) \/ DOMAIN patch = {}
    THEN [driver |-> self,
          result |-> DriverErr([kind |-> "InvalidPatch", error |-> NoneV])]
    ELSE submit_patch_loop(self, spec, ctx, patch,
                           keys_in_order(DOMAIN patch, 1), 1, Null)

\* WizardDriver::finish
finish(self, spec) ==
    IF ~self.complete
    THEN DriverErr([kind |-> "NeedsInteraction", error |-> NoneV])
    ELSE DriverOk([form_id |-> spec.id, answers |-> self.answers])

----------------------------------------------------------------------------
(* Idle values: a specification of one part of the engine keeps the        *)
(* variables of the other parts at these values.                           *)

\* An engine call: the operation, and the patch of plan_submit_patch.
Call(op) == [op |-> op, question_id |-> "", value |-> NoneV]

IdleEngine ==
    /\ form = Form("idle", <<>>)
    /\ context = EmptyCtx
    /\ input = EmptyObj
    /\ call = Call("idle")
    /\ out = NoneV

IdleStore == store_ctx = NoneV /\ store_out = NoneV
IdleDriver == driver = NoneV /\ reply = NoneV
IdleCompose == include_registry = EmptyObj /\ root_form = NoneV /\ expansion = NoneV

----------------------------------------------------------------------------
(* Spec: the planners on small forms                                       *)

\* The longest question list of a form of Spec.
MaxPlanQuestions == 2

\* A store op and the policies of a form.
StoreOp(target, path, value) == [target |-> target, path |-> path, value |-> value]

PlanQuestions ==
    {[Question(id, "string") EXCEPT !.required = r] :
        id \in {"q1", "q2"}, r \in BOOLEAN}
    \cup {[Question(id, "boolean") EXCEPT !.required = TRUE] : id \in {"q1", "q2"}}
    \cup {[Question(id, "string") EXCEPT !.computed = Literal(Str("a")),
                                         !.computed_overridable = o] :
        id \in {"q1", "q2"}, o \in BOOLEAN}

PlanQuestionLists ==
    UNION {[1..n -> PlanQuestions] : n \in 1..MaxPlanQuestions}

PlanStores == {<<>>, <<StoreOp("State", <<"applied">>, Bool(TRUE))>>}

PlanForms ==
    {[Form("f", qs) EXCEPT !.store = ops] :
        qs \in PlanQuestionLists, ops \in PlanStores}

\* The answers handed in: objects over q1, q2 and the unknown key zz, and
\* a value that is not an object.
PlanInputs ==
    {Null} \cup
    UNION {[keys -> {Str("a"), Bool(TRUE)}] : keys \in SUBSET {"q1", "q2"}} \cup
    UNION {[keys \cup {"zz"} -> {Str("a")}] : keys \in SUBSET {"q1"}}

PlanPatchKeys == {"q1", "q2", "zz"}
PlanPatchValues == {Str("a"), Bool(TRUE)}

Init ==
    /\ form \in PlanForms
    /\ context = EmptyCtx
    /\ input \in PlanInputs
    /\ call = Call("init")
    /\ out = NoneV
    /\ IdleStore
    /\ IdleDriver
    /\ IdleCompose

PlanSubmitPatch ==
    /\ call = Call("init")
    /\ \E question_id \in PlanPatchKeys, value \in PlanPatchValues :
        /\ call' = [op |-> "plan_submit_patch", question_id |-> question_id,
                    value |-> value]
        /\ out' = plan_submit_patch(form, context, input, question_id, value)
    /\ UNCHANGED <<form, context, input, storeVars, driverVars, composeVars>>

PlanSubmitAll ==
    /\ call = Call("init")
    /\ call' = Call("plan_submit_all")
    /\ out' = plan_submit_all(form, context, input)
    /\ UNCHANGED <<form, context, input, storeVars, driverVars, composeVars>>

PlanNext ==
    /\ call = Call("init")
    /\ call' = Call("plan_next")
    /\ out' = plan_next(form, context, input)
    /\ UNCHANGED <<form, context, input, storeVars, driverVars, composeVars>>

BuildSubmissionPlan ==
    /\ call = Call("init")
    /\ call' = Call("build_submission_plan")
    /\ out' = build_submission_plan(form, context, input)
    /\ UNCHANGED <<form, context, input, storeVars, driverVars, composeVars>>

Next == PlanSubmitPatch \/ PlanSubmitAll \/ PlanNext \/ BuildSubmissionPlan

Spec == Init /\ [][Next]_vars

\* C4: the validated_patch of the plan of plan_submit_patch(spec, ctx,
\* answers, q, v) is the answers object (the empty object when answers is
\* not an object) with q set to v and every other key as it was, for a
\* valid and for an invalid plan alike; no computed value is added.
C4_ValidatedPatchIsPatchedAnswers ==
    call.op = "plan_submit_patch" =>
        LET before == as_object(input)
            patch == out.validated_patch
        IN  /\ DOMAIN patch = DOMAIN before \cup {call.question_id}
            /\ patch[call.question_id] = call.value
            /\ \A k \in DOMAIN before \ {call.question_id} : patch[k] = before[k]

\* An invalid plan of a patch that overwrites an answer, on a form with a
\* computed question whose value is not among the answers.
C4_Witness ==
    /\ call.op = "plan_submit_patch"
    /\ ~out.validation.valid
    /\ IsObject(input)
    /\ call.question_id \in DOMAIN input
    /\ input[call.question_id] # call.value
    /\ \E i \in 1..Len(form.questions) :
        /\ form.questions[i].computed # NoExpr
        /\ form.questions[i].id \notin DOMAIN out.validated_patch

\* C5: every plan of plan_submit_patch, plan_submit_all, plan_next and
\* build_submission_plan has effects equal to the form's store when its
\* validation is valid and no effects when it is not.
C5_EffectsIffValid ==
    call.op \in {"plan_submit_patch", "plan_submit_all", "plan_next",
                 "build_submission_plan"} =>
        /\ out.validation.valid => out.effects = form.store
        /\ ~out.validation.valid => out.effects = <<>>

\* An invalid plan of a form that has store ops.
C5_Witness ==
    /\ call.op \in {"plan_submit_all", "build_submission_plan"}
    /\ ~out.validation.valid
    /\ form.store # <<>>
    /\ out.effects = <<>>

----------------------------------------------------------------------------
(* SpecComputed: apply_computed_answers on forms of computed questions     *)

\* The longest question list of a form of SpecComputed.
MaxComputedQuestions == 2

QIds == {"q1", "q2", "q3"}

\* The computed expressions of the forms: absent, a constant, reads of one
\* answer through each of the three path operators, and a comparison.
ComputedExprs ==
    {NoExpr, Literal(Str("a")), Answer("q1"), Var("q2"), IsSet("q3"),
     Cmp("eq", Answer("q1"), Answer("q2"))}

ComputedQuestions ==
    {q \in {[Question(id, "string") EXCEPT !.computed = e,
                                            !.computed_overridable = o] :
                id \in QIds, e \in ComputedExprs, o \in BOOLEAN} :
        q.computed = NoExpr => ~q.computed_overridable}

ComputedQuestionLists ==
    UNION {[1..n -> ComputedQuestions] : n \in 1..MaxComputedQuestions}

\* Answer objects over the question ids: each key absent or a string.
ComputedInputs ==
    {a \in UNION {[keys -> {Str("a"), Str("b")}] : keys \in SUBSET QIds} :
        /\ ("q2" \in DOMAIN a => a["q2"] = Str("a"))
        /\ ("q3" \in DOMAIN a => a["q3"] = Str("b"))}

InitComputed ==
    /\ form \in {Form("computed", qs) : qs \in ComputedQuestionLists}
    /\ context = EmptyCtx
    /\ input \in ComputedInputs
    /\ call = Call("init")
    /\ out = NoneV
    /\ IdleStore /\ IdleDriver /\ IdleCompose

\* apply_computed_answers(spec, answers)
ApplyComputed ==
    /\ call = Call("init")
    /\ call' = Call("computed")
    /\ out' = apply_computed_answers(form, input)
    /\ UNCHANGED <<form, context, input, storeVars, driverVars, composeVars>>

\* apply_computed_answers on the result of the first application, which
\* becomes the input.
ApplyComputedAgain ==
    /\ call = Call("computed")
    /\ call' = Call("computed_twice")
    /\ input' = out
    /\ out' = apply_computed_answers(form, out)
    /\ UNCHANGED <<form, context, storeVars, driverVars, composeVars>>

NextComputed == ApplyComputed \/ ApplyComputedAgain

SpecComputed == InitComputed /\ [][NextComputed]_vars

\* The question ids an expression reads.
RECURSIVE reads(_)
reads(expr) ==
    CASE expr.op \in {"var", "answer", "is_set"} -> {expr.path}
      [] expr.op \in {"and", "or"} ->
            UNION {reads(expr.expressions[i]) : i \in 1..Len(expr.expressions)}
      [] expr.op = "not" -> reads(expr.expression)
      [] expr.op \in {"eq", "ne", "lt", "lte", "gt", "gte"} ->
            reads(expr.left) \cup reads(expr.right)
      [] OTHER -> {}

UniqueIds(spec) ==
    \A i, j \in 1..Len(spec.questions) :
        spec.questions[i].id = spec.questions[j].id => i = j

\* Every computed expression reads only questions that are not computed or
\* computed questions declared before it.
ReadsOnlyEarlier(spec) ==
    \A i, j \in 1..Len(spec.questions) :
        (/\ spec.questions[i].computed # NoExpr
         /\ spec.questions[j].computed # NoExpr
         /\ spec.questions[j].id \in reads(spec.questions[i].computed)) => j < i

\* C3 as stated: applying apply_computed_answers to its own result gives
\* that result again, for every form and every answer object.
C3_IdempotentAll == call.op = "computed_twice" => out = input

\* C3 amended: apply_computed_answers is idempotent on every form whose
\* computed expressions read only questions that are not computed or
\* computed questions declared earlier.
C3_IdempotentOrdered ==
    (call.op = "computed_twice" /\ ReadsOnlyEarlier(form)) => out = input

\* A second application on a form where a computed question reads another
\* computed question declared before it, and the derivation wrote a value.
C3_Witness ==
    /\ call.op = "computed_twice"
    /\ ReadsOnlyEarlier(form)
    /\ \E i, j \in 1..Len(form.questions) :
          /\ j < i
          /\ form.questions[j].computed # NoExpr
          /\ form.questions[j].id \in reads(form.questions[i].computed)
          /\ form.questions[i].id \in DOMAIN out
          /\ form.questions[j].id \in DOMAIN out

\* The value of the computed expression of question i when the loop comes
\* to it: evaluated against the answers as derived by the questions before.
ComputedValue(spec, answers, i) ==
    evaluate_value(spec.questions[i].computed,
        build_expression_context(
            apply_computed_answers([spec EXCEPT !.questions = SubSeq(@, 1, i - 1)],
                                   answers)))

\* C18: in the result of apply_computed_answers on a form of distinct
\* question ids, for each question with a computed expression: when it is
\* overridable and the answers supply a value, that value is kept;
\* otherwise the key holds the expression's value, whatever the answers
\* supplied, and is absent when the expression yields no value.  The
\* expression's value is its value on the answers given unless it reads a
\* computed question declared before it.
C18_ComputedOverwritesUnlessOverridable ==
    (call.op = "computed" /\ UniqueIds(form)) =>
        \A i \in 1..Len(form.questions) :
            form.questions[i].computed # NoExpr =>
                LET question == form.questions[i]
                    value == ComputedValue(form, input, i)
                IN  /\ IF question.computed_overridable /\ question.id \in DOMAIN input
                       THEN /\ question.id \in DOMAIN out
                            /\ out[question.id] = input[question.id]
                       ELSE IF IsSome(value)
                       THEN /\ question.id \in DOMAIN out
                            /\ out[question.id] = value
                       ELSE question.id \notin DOMAIN out
                    /\ (\A j \in 1..(i - 1) :
                            form.questions[j].computed # NoExpr =>
                                form.questions[j].id \notin reads(question.computed))
                        => value = evaluate_value(question.computed,
                                                  build_expression_context(input))

\* The answers supply "b" for a question computed as "a": the result holds
\* "a" when the question is not overridable, and a second question whose
\* expression yields no value is absent from the result though the answers
\* supplied it.
C18_Witness ==
    /\ call.op = "computed"
    /\ UniqueIds(form)
    /\ Len(form.questions) = 2
    /\ form.questions[1].id = "q1"
    /\ form.questions[1].computed = Literal(Str("a"))
    /\ ~form.questions[1].computed_overridable
    /\ "q1" \in DOMAIN input
    /\ input["q1"] = Str("b")
    /\ out["q1"] = Str("a")
    /\ form.questions[2].id = "q3"
    /\ form.questions[2].computed = Var("q2")
    /\ "q3" \in DOMAIN input
    /\ "q3" \notin DOMAIN out

----------------------------------------------------------------------------
(* SpecStore: a StoreContext under apply_ops and execute_plan_effects,     *)
(* the secrets gate, and the component entry points that apply the store   *)

\* The most mutating calls made on one StoreContext.
MaxStoreSteps == 2

AwsOnly ==
    [some |-> TRUE, enabled |-> TRUE, read_enabled |-> TRUE, write_enabled |-> TRUE,
     allow |-> <<<<"aws", "*">>>>, deny |-> <<>>]

\* The secrets policies of the forms: absent, disabled, one allow glob,
\* everything allowed but one denied key, writes disabled, an empty allow
\* list, and an allow glob that does not compile.
StorePolicies ==
    {NoSecretsPolicy,
     [AwsOnly EXCEPT !.enabled = FALSE],
     AwsOnly,
     [AwsOnly EXCEPT !.allow = <<<<"*">>>>, !.deny = <<<<"aws", "key">>>>],
     [AwsOnly EXCEPT !.write_enabled = FALSE],
     [AwsOnly EXCEPT !.read_enabled = FALSE],
     [AwsOnly EXCEPT !.allow = <<>>],
     [AwsOnly EXCEPT !.allow = <<<<"[">>>>]}

StoreKeys == {<<"aws", "key">>, <<"aws", "a", "b">>, <<"db", "key">>, <<"aws">>}

StoreOps ==
    {StoreOp("State", <<"applied">>, Bool(TRUE)),
     StoreOp("Answers", <<"q1">>, Str("b")),
     StoreOp("Config", <<>>, Str("a")),
     StoreOp("PayloadOut", <<"q1", "a~1b">>, Str("a")),
     StoreOp("Secrets", <<"aws", "key">>, Str("a")),
     StoreOp("Secrets", <<"aws", "key">>, Str("b")),
     StoreOp("Secrets", <<"db", "key">>, Str("a")),
     StoreOp("Secrets", <<"">>, Str("a"))}

StoreOpLists ==
    {<<>>} \cup {<<a>> : a \in StoreOps} \cup {<<a, b>> : a, b \in StoreOps}

\* The forms: one required question under every op list and policy, and,
\* under the lists of at most one op, that question followed by an optional
\* one.
StoreForms ==
    {[Form("f", <<[Question("q1", "string") EXCEPT !.required = TRUE]>>) EXCEPT
        !.store = ops, !.secrets_policy = policy] :
        ops \in StoreOpLists, policy \in StorePolicies}
    \cup
    {[Form("f", <<[Question("q1", "string") EXCEPT !.required = TRUE],
                  Question("q2", "boolean")>>) EXCEPT
        !.store = ops, !.secrets_policy = policy] :
        ops \in {<<>>} \cup {<<a>> : a \in StoreOps}, policy \in StorePolicies}

\* The runtime context the StoreContext is built from: its payload_out
\* member already holds an answer.
BaseContext == [EmptyCtx EXCEPT !.payload_out = ObjToTree([k \in {"q1"} |-> Str("b")])]

\* The runtime contexts of the component calls: the host flag nowhere, at
\* the top level, under config, in both places, and at the top level with
\* a value that is not a boolean.
\* The last one holds an answers member of its own.
StoreContexts ==
    {[BaseContext EXCEPT
        !.secrets_host_available = flags[1],
        !.config = IF flags[2] = NoneV THEN EmptyTree
                   ELSE ObjToTree([k \in {"secrets_host_available"} |-> flags[2]])] :
        flags \in {<<NoneV, NoneV>>, <<Bool(TRUE), NoneV>>, <<NoneV, Bool(TRUE)>>,
                   <<Bool(FALSE), Bool(TRUE)>>, <<Str("true"), Bool(TRUE)>>}}
    \cup {[BaseContext EXCEPT !.answers = ObjToTree([k \in {"q1"} |-> Str("a")])]}

StoreInputs == {EmptyObj, [k \in {"q1"} |-> Str("a")]}

Stored(op, steps, args, result) ==
    [op |-> op, steps |-> steps, args |-> args, result |-> result]

InitStore ==
    /\ form \in StoreForms
    /\ context \in {BaseContext,
                    [BaseContext EXCEPT !.answers = ObjToTree([k \in {"q1"} |-> Str("a")])]}
    /\ input = EmptyObj
    /\ call = Call("idle")
    /\ out = NoneV
    /\ store_ctx = StoreContext_from_value(context)
    /\ store_out = Stored("init", 0, NoneV, Ok)
    /\ IdleDriver
    /\ IdleCompose

\* store_ctx.apply_ops(&form.store, form.secrets_policy, host_available)
ApplyOps ==
    /\ store_out.steps < MaxStoreSteps
    /\ \E host_available \in BOOLEAN :
        \E applied \in {apply_ops(store_ctx, form.store, form.secrets_policy,
                                  host_available)} :
            /\ store_ctx' = applied.store
            /\ store_out' = Stored("apply_ops", store_out.steps + 1,
                                   [before |-> store_ctx, ops |-> form.store,
                                    host_available |-> host_available],
                                   applied.result)
    /\ UNCHANGED <<engineVars, driverVars, composeVars>>

\* execute_plan_effects on the plan of plan_submit_all, or on that plan
\* with the form's store ops as its effects.
ExecutePlanEffects ==
    /\ store_out.steps < MaxStoreSteps
    /\ \E answers \in StoreInputs, host_available \in BOOLEAN, forced \in BOOLEAN :
        \E planned \in {plan_submit_all(form, context, answers)} :
        \E plan \in {IF forced THEN [planned EXCEPT !.effects = form.store]
                     ELSE planned} :
        \E applied \in {execute_plan_effects(plan, store_ctx, form.secrets_policy,
                                             host_available)} :
            /\ store_ctx' = applied.store
            /\ store_out' = Stored("execute_plan_effects", store_out.steps + 1,
                                   [before |-> store_ctx, plan |-> plan,
                                    host_available |-> host_available],
                                   applied.result)
    /\ UNCHANGED <<engineVars, driverVars, composeVars>>

\* secrets::evaluate(form.secrets_policy, key, action, host_available)
Evaluate ==
    /\ store_out.op = "init"
    /\ \E key \in StoreKeys, action \in {"Read", "Write"}, host_available \in BOOLEAN :
        store_out' = Stored("evaluate", store_out.steps,
                            [key |-> key, action |-> action,
                             host_available |-> host_available],
                            evaluate(form.secrets_policy, key, action, host_available))
    /\ UNCHANGED <<engineVars, store_ctx, driverVars, composeVars>>

ApplyStore ==
    /\ store_out.op = "init"
    /\ \E ctx \in StoreContexts, answers \in StoreInputs :
        store_out' = Stored("apply_store", store_out.steps,
                            [ctx |-> ctx, answers |-> answers],
                            apply_store(form, ctx, answers))
    /\ UNCHANGED <<engineVars, store_ctx, driverVars, composeVars>>

SubmitPatch ==
    /\ store_out.op = "init"
    /\ \E ctx \in StoreContexts, answers \in StoreInputs,
          question_id \in {"q1", "q2"}, value \in {Str("a"), Bool(TRUE)} :
        store_out' = Stored("submit_patch", store_out.steps,
                            [ctx |-> ctx, answers |-> answers,
                             question_id |-> question_id, value |-> value],
                            submit_patch(form, ctx, answers, question_id, value))
    /\ UNCHANGED <<engineVars, store_ctx, driverVars, composeVars>>

SubmitAll ==
    /\ store_out.op = "init"
    /\ \E ctx \in StoreContexts, answers \in StoreInputs :
        store_out' = Stored("submit_all", store_out.steps,
                            [ctx |-> ctx, answers |-> answers],
                            submit_all(form, ctx, answers))
    /\ UNCHANGED <<engineVars, store_ctx, driverVars, composeVars>>

NextStore ==
    \/ ApplyOps
    \/ ExecutePlanEffects
    \/ Evaluate
    \/ ApplyStore
    \/ SubmitPatch
    \/ SubmitAll

SpecStore == InitStore /\ [][NextStore]_vars

\* C1: execute_plan_effects on a plan that is not valid returns Ok and
\* leaves every member of the StoreContext, answers included, as it was,
\* whatever the plan's effects and validated_patch are.
C1_InvalidPlanIsNoOp ==
    (store_out.op = "execute_plan_effects"
        /\ ~store_out.args.plan.validation.valid) =>
        /\ store_out.result = Ok
        /\ store_ctx = store_out.args.before

\* An invalid plan that carries effects and a validated_patch other than
\* the answers of the StoreContext has been executed.
C1_Witness ==
    /\ store_out.op = "execute_plan_effects"
    /\ ~store_out.args.plan.validation.valid
    /\ store_out.args.plan.effects # <<>>
    /\ store_out.args.plan.effects[1].target # "Secrets"
    /\ ValueToTree(store_out.args.plan.validated_patch) # store_out.args.before.answers

\* The op of the list that apply_ops refuses first: a Secrets op whose
\* pointer has no key or whose write the policy does not allow; 0 if none.
Refused(op, policy, host_available) ==
    /\ op.target = "Secrets"
    /\ \/ secret_key(op.path) = NoneV
       \/ evaluate(policy, secret_key(op.path), "Write", host_available).kind
            # "Allowed"

FirstRefused(ops, policy, host_available) ==
    IF \E i \in 1..Len(ops) : Refused(ops[i], policy, host_available)
    THEN CHOOSE i \in 1..Len(ops) :
            /\ Refused(ops[i], policy, host_available)
            /\ \A j \in 1..(i - 1) : ~Refused(ops[j], policy, host_available)
    ELSE 0

\* C6: when apply_ops comes to a Secrets op whose write evaluates to Denied
\* or to HostUnavailable, the op writes nothing: secrets is as the ops
\* before it left it (as it was before the call when no Secrets op comes
\* before it), and the error is SecretAccessDenied with the key and the
\* code for Denied, SecretHostUnavailable for HostUnavailable.
C6_RefusedSecretWritesNothing ==
    store_out.op = "apply_ops" =>
        LET a == store_out.args
            policy == form.secrets_policy
            i == FirstRefused(a.ops, policy, a.host_available)
        IN  (i > 0 /\ secret_key(a.ops[i].path) # NoneV) =>
                LET key == secret_key(a.ops[i].path)
                    access == evaluate(policy, key, "Write", a.host_available)
                IN  /\ access.kind = "Denied" =>
                        store_out.result = SecretAccessDenied(key, "secret_access_denied")
                    /\ access.kind = "HostUnavailable" =>
                        store_out.result = SecretHostUnavailable
                    /\ SecretAccessDenied(key, "secret_access_denied")
                        # SecretHostUnavailable
                    /\ store_ctx.secrets =
                        apply_ops(a.before, SubSeq(a.ops, 1, i - 1), policy,
                                  a.host_available).store.secrets
                    /\ (\A j \in 1..(i - 1) : a.ops[j].target # "Secrets") =>
                        store_ctx.secrets = a.before.secrets

\* A write to db/key refused by a policy that has allowed a write to
\* aws/key earlier in the same list.
C6_Witness ==
    /\ store_out.op = "apply_ops"
    /\ store_out.result.kind = "SecretAccessDenied"
    /\ store_out.result.key = <<"db", "key">>
    /\ <<"db", "key">> \notin DOMAIN store_ctx.secrets
    /\ <<"aws", "key">> \in DOMAIN store_ctx.secrets

\* Every check of the policy passes for the key and the action.
ChecksPass(policy, key, action) ==
    /\ policy.some
    /\ policy.enabled
    /\ action = "Read" => policy.read_enabled
    /\ action = "Write" => policy.write_enabled
    /\ ~matches_any(policy.deny, key)
    /\ policy.allow # <<>>
    /\ matches_any(policy.allow, key)

\* C7: evaluate returns Denied("secret_access_denied") when a check of the
\* policy fails, whatever host_available is; HostUnavailable exactly when
\* every check passes and the host is not available; Allowed exactly when
\* every check passes and the host is available.
C7_EvaluateOrder ==
    store_out.op = "evaluate" =>
        LET a == store_out.args
            pass == ChecksPass(form.secrets_policy, a.key, a.action)
        IN  /\ ~pass => store_out.result = Denied("secret_access_denied")
            /\ store_out.result = HostUnavailable <=> (pass /\ ~a.host_available)
            /\ store_out.result = Allowed <=> (pass /\ a.host_available)

\* A key the policy's deny list matches, evaluated with the host unavailable.
C7_Witness ==
    /\ store_out.op = "evaluate"
    /\ ~store_out.args.host_available
    /\ form.secrets_policy.some /\ form.secrets_policy.enabled
    /\ matches_any(form.secrets_policy.deny, store_out.args.key)
    /\ store_out.result = Denied("secret_access_denied")

\* The member of a StoreContext an op target names.
Member(store, target) ==
    CASE target = "Answers" -> store.answers
      [] target = "State" -> store.state
      [] target = "Config" -> store.config
      [] target = "PayloadOut" -> store.payload_out
      [] target = "Secrets" -> store.secrets

\* Two paths one of which leads through the other.
Overlap(p, q) == IsPrefix(p, q) \/ IsPrefix(q, p)

\* The member `target` after the first n ops, each applied in list order:
\* a leaf is where the last op that wrote over its place put it, or where
\* it was before the call if no op wrote over its place.
AfterOps(before, ops, n, target) ==
    LET writers == {j \in 1..n : ops[j].target = target}
        at(j) == decode_segments(ops[j].path)
        last == {j \in writers : \A k \in writers : k > j => ~Overlap(at(k), at(j))}
        kept == {q \in DOMAIN before : \A j \in writers : ~Overlap(at(j), q)}
    IN  [q \in kept \cup {at(j) : j \in last} |->
            IF q \in kept THEN before[q]
            ELSE ops[CHOOSE j \in last : at(j) = q].value]

StoreTargets == {"Answers", "State", "Config", "PayloadOut", "Secrets"}

\* C8: apply_ops applies the ops in list order and stops at the first op
\* that fails: the ops before it are applied to the StoreContext, it and
\* the ops after it are not, and its error is returned; without a failing
\* op every op is applied and Ok returned.  apply_store, submit_patch and
\* submit_all answer a failure with the error alone.
C8_StopsAtFirstFailure ==
    /\ store_out.op = "apply_ops" =>
        LET a == store_out.args
            i == FirstRefused(a.ops, form.secrets_policy, a.host_available)
            applied == IF i = 0 THEN Len(a.ops) ELSE i - 1
        IN  /\ (i = 0) <=> (store_out.result = Ok)
            /\ \A target \in StoreTargets :
                Member(store_ctx, target)
                    = AfterOps(Member(a.before, target), a.ops, applied, target)
    /\ store_out.op \in {"apply_store", "submit_patch", "submit_all"} =>
        LET a == store_out.args
            i == FirstRefused(form.store, form.secrets_policy,
                              secrets_host_available(a.ctx))
            invalid == store_out.op # "apply_store"
                       /\ "status" \in DOMAIN store_out.result
                       /\ store_out.result.status = "error"
        IN  (i > 0 /\ ~invalid) => DOMAIN store_out.result = {"error"}

\* A list whose first op changed the context and whose second was refused.
C8_Witness ==
    /\ store_out.op = "apply_ops"
    /\ Len(store_out.args.ops) = 2
    /\ store_out.result.kind = "SecretHostUnavailable"
    /\ store_ctx # store_out.args.before
    /\ store_ctx.state # store_out.args.before.state

\* The answers a submission validates: for submit_patch the answers object
\* with the value inserted under the question id, for submit_all the
\* answers as given.
MergedAnswers(op, args) ==
    IF op = "submit_patch"
    THEN Insert(as_object(args.answers), args.question_id, args.value)
    ELSE args.answers

\* A next question exists: some visible question of the form is not skipped
\* under the (computed) answers.
NextQuestionExists(spec, ctx, answers) ==
    LET computed_answers == apply_computed_answers(spec, answers)
        visibility == resolve_visibility(spec, computed_answers, "Visible")
    IN  \E i \in 1..Len(spec.questions) :
            /\ is_visible(visibility, spec.questions[i].id)
            /\ ~should_skip(spec.questions[i], ProgressContext(computed_answers, ctx),
                            policy_or_default(spec.progress_policy))

\* C14: when the merged answers of submit_patch or submit_all are valid and
\* no store op is refused, the response is a success response: it carries
\* the merged answers, a store whose answers are the merged answers with
\* the form's Answers-target ops applied (the merged answers themselves
\* when there is none), status need_input exactly when a next question
\* exists and complete exactly when none exists.
C14_ValidSubmitResponse ==
    store_out.op \in {"submit_patch", "submit_all"} =>
        LET a == store_out.args
            r == store_out.result
            merged == MergedAnswers(store_out.op, a)
        IN  (/\ validate(form, merged).valid
             /\ FirstRefused(form.store, form.secrets_policy,
                             secrets_host_available(a.ctx)) = 0) =>
                /\ ~is_component_error(r)
                /\ r.answers = merged
                /\ r.store.answers =
                        AfterOps(ValueToTree(merged), form.store, Len(form.store),
                                 "Answers")
                /\ (\A i \in 1..Len(form.store) : form.store[i].target # "Answers")
                        => r.store.answers = ValueToTree(merged)
                /\ r.status = "need_input" <=> NextQuestionExists(form, a.ctx, merged)
                /\ r.status = "complete" <=> ~NextQuestionExists(form, a.ctx, merged)
                /\ r.next_question_id.some <=> r.status = "need_input"

\* submit_patch has merged q1 into empty answers of a form that goes on to
\* ask q2, applied a store op, and answered need_input with q2 next.
C14_Witness ==
    /\ store_out.op = "submit_patch"
    /\ store_out.args.answers = EmptyObj
    /\ ~is_component_error(store_out.result)
    /\ store_out.result.status = "need_input"
    /\ store_out.result.next_question_id = SomeStr("q2")
    /\ store_out.result.answers = [k \in {"q1"} |-> Str("a")]
    /\ form.store # <<>>
    /\ <<"q1">> \in DOMAIN store_out.result.store.answers

----------------------------------------------------------------------------
(* SpecDriver: a WizardDriver under next_payload_json, submit_patch_json   *)
(* and finish                                                              *)

DriverFirstQuestions ==
    {[Question("q1", "string") EXCEPT !.required = TRUE],
     Question("q1", "string")}

DriverSecondQuestions ==
    {Question("q2", "boolean"),
     [Question("q2", "boolean") EXCEPT !.required = TRUE],
     [Question("q2", "string") EXCEPT !.computed = Literal(Str("a"))],
     [Question("q2", "string") EXCEPT !.computed = Answer("zz")],
     [Question("q2", "boolean") EXCEPT
        !.visible_if = Cmp("eq", Answer("q1"), Literal(Str("a")))]}

\* The store ops of a form, under the policy AwsOnly: none, and an op
\* that is applied before the write of a secret the policy refuses.
DriverStores ==
    {<<>>,
     <<StoreOp("State", <<"applied">>, Bool(TRUE)),
       StoreOp("Secrets", <<"db", "key">>, Str("a"))>>}

DriverForms ==
    {[Form("f", qs) EXCEPT !.store = ops, !.secrets_policy = AwsOnly] :
        qs \in {<<a>> : a \in DriverFirstQuestions}
               \cup {<<a, b>> : a \in DriverFirstQuestions,
                                b \in DriverSecondQuestions},
        ops \in DriverStores}

DriverInitialAnswers ==
    {NoneV, [k \in {"q2"} |-> Str("a")], [k \in {"q1"} |-> Bool(TRUE)]}

\* The patches: an object of one or two keys over q1, q2 and the unknown
\* key zz, the empty object, and a value that is not an object.
DriverPatches ==
    {Null, EmptyObj,
     [k \in {"q1"} |-> Str("a")],
     [k \in {"q1"} |-> Str("b")],
     [k \in {"q1"} |-> Bool(TRUE)],
     [k \in {"q2"} |-> Bool(TRUE)],
     [q1 |-> Str("a"), q2 |-> Bool(TRUE)],
     [k \in {"zz"} |-> Str("a")],
     [q1 |-> Str("a"), zz |-> Str("a")]}

Replied(op, before, patch, result) ==
    [op |-> op, before |-> before, patch |-> patch, result |-> result]

InitDriver ==
    /\ form \in DriverForms
    /\ context = EmptyCtx
    /\ input \in DriverInitialAnswers
    /\ call = Call("idle")
    /\ out = NoneV
    /\ IdleStore
    /\ driver = WizardDriver_new(input)
    /\ reply = Replied("new", NoneV, NoneV, DriverOk(NoneV))
    /\ IdleCompose

NextPayloadJson ==
    /\ \E done \in {next_payload_json(driver, form, context)} :
        /\ driver' = done.driver
        /\ reply' = Replied("next_payload_json", driver, NoneV, done.result)
    /\ UNCHANGED <<engineVars, storeVars, composeVars>>

SubmitPatchJson ==
    /\ \E patch \in DriverPatches :
        \E done \in {submit_patch_json(driver, form, context, patch)} :
            /\ driver' = done.driver
            /\ reply' = Replied("submit_patch_json", driver, patch, done.result)
    /\ UNCHANGED <<engineVars, storeVars, composeVars>>

Finish ==
    /\ reply' = Replied("finish", driver, NoneV, finish(driver, form))
    /\ UNCHANGED <<engineVars, storeVars, driver, composeVars>>

NextDriver == NextPayloadJson \/ SubmitPatchJson \/ Finish

SpecDriver == InitDriver /\ [][NextDriver]_vars

\* C2: after submit_patch_json has returned the status "error" (the
\* validation of the patch is not valid), the driver is not complete and
\* holds the answers it held before the call.
C2_InvalidPatchLeavesAnswers ==
    (reply.op = "submit_patch_json" /\ reply.result.kind = "Ok"
        /\ reply.result.value.status = "error") =>
        /\ ~reply.result.value.response_json.validation.valid
        /\ ~driver.complete
        /\ driver.answers = reply.before.answers

\* C12: once the driver is complete it stays complete under
\* next_payload_json and submit_patch_json, and finish succeeds whenever
\* the driver is complete.
C12_CompleteIsTerminal ==
    /\ (reply.op \in {"next_payload_json", "submit_patch_json"}
            /\ reply.before.complete) => driver.complete
    /\ (reply.op = "finish" /\ driver.complete) => reply.result.kind = "Ok"

\* The object the keys of patch are merged into, one after the other.
Merged(answers, patch) ==
    [k \in DOMAIN answers \cup DOMAIN patch |->
        IF k \in DOMAIN patch THEN patch[k] ELSE answers[k]]

\* Every required question of the form has a key in the answers.
RequiredAnswered(spec, answers) ==
    \A i \in 1..Len(spec.questions) :
        spec.questions[i].required => spec.questions[i].id \in DOMAIN answers

\* Every question of the form that is visible under the answers with the
\* computed values applied, required or not, has a value in them.
VisibleAnswered(spec, answers) ==
    LET computed_answers == apply_computed_answers(spec, answers)
        visibility == resolve_visibility(spec, computed_answers, "Visible")
    IN  \A i \in 1..Len(spec.questions) :
            is_visible(visibility, spec.questions[i].id) =>
                spec.questions[i].id \in DOMAIN computed_answers

\* The patch restricted to its first n keys, in the order of the map.
FirstKeys(patch, n) ==
    LET keys == keys_in_order(DOMAIN patch, 1)
    IN  [k \in {keys[i] : i \in 1..n} |-> patch[k]]

\* Submitted key by key, every key of the patch leaves answers that
\* validate accepts.
EachKeyAccepted(spec, answers, patch) ==
    \A n \in 1..Cardinality(DOMAIN patch) :
        validate(spec, Merged(answers, FirstKeys(patch, n))).valid

----------------------------------------------------------------------------
(* SpecCompose: expand_includes on a root form and a registry              *)

\* The question lists of a form: none, one question, the same id twice,
\* and a second question shown when the first is answered.
ComposeQuestionLists ==
    {<<>>,
     <<Question("q1", "string")>>,
     <<Question("q1", "string"), Question("q1", "boolean")>>,
     <<Question("q1", "string"),
       [Question("q2", "string") EXCEPT !.visible_if = IsSet("q1")]>>}

\* The include lists of a form, over the references a-ref, b-ref and one
\* the registry never holds.
ComposeIncludeLists ==
    {<<>>,
     <<IncludeSpec("a-ref", NoStr)>>,
     <<IncludeSpec("a-ref", SomeStr("p"))>>,
     <<IncludeSpec("b-ref", SomeStr("p"))>>,
     <<IncludeSpec("b-ref", NoStr)>>,
     <<IncludeSpec("missing", NoStr)>>,
     <<IncludeSpec("b-ref", SomeStr("p")), IncludeSpec("a-ref", SomeStr(""))>>,
     <<IncludeSpec("b-ref", SomeStr("p")), IncludeSpec("b-ref", NoStr)>>,
     <<IncludeSpec("missing", NoStr), IncludeSpec("b-ref", NoStr)>>}

ComposeValidations ==
    {<<>>, <<CrossFieldValidation(SomeStr("v1"), <<"q1">>, Not(IsSet("q1")))>>}

ComposeForms(id) ==
    {[Form(id, qs) EXCEPT !.includes = incs] :
        qs \in ComposeQuestionLists, incs \in ComposeIncludeLists}

\* The forms handed to expand_includes: id "A", some with a validation.
ComposeRoots ==
    {[f EXCEPT !.validations = vs] : f \in ComposeForms("A"), vs \in ComposeValidations}

\* Questions whose expressions hold paths at several depths: relative,
\* absolute and empty ones, under Answer, IsSet and Var, and a list
\* question whose field has an expression of its own.
NestedQuestionLists ==
    LET gate == [Question("q1", "string") EXCEPT
                    !.visible_if = And(<<IsSet("q2"),
                                         Not(Cmp("eq", Answer("q2"), Literal(Str("q2"))))>>)]
        rows == [Question("q2", "list") EXCEPT
                    !.list = ListSpec(NoNum, NoNum,
                                <<[Question("q1", "string") EXCEPT
                                    !.visible_if = Or(<<Answer("/q1"), Var("q1")>>)]>>),
                    !.computed = Cmp("lt", Answer(""), Var("/q2"))]
    IN  {<<gate>>, <<rows>>, <<gate, rows>>}
NestedValidations ==
    {<<>>,
     <<CrossFieldValidation(NoStr, <<"q1", "q2">>,
            Or(<<Not(IsSet("/q2")), Cmp("gte", Answer("q1"), Var("q2"))>>))>>}
\* The registries: a-ref absent or a form with id "A", b-ref absent or a
\* form with id "B" or "A"; and a-ref a form with id "C" that includes
\* b-ref under the prefix r, b-ref a form with id "B" without includes.
ComposeRegistries ==
    {EmptyObj}
    \cup UNION {[{"a-ref"} -> ComposeForms("A")], [{"b-ref"} -> ComposeForms("B")]}
    \cup {[r \in {"a-ref", "b-ref"} |-> IF r = "a-ref" THEN a ELSE b] :
            a \in ComposeForms("A"),
            b \in ComposeForms("B") \cup {Form("A", <<>>)}}
    \cup {[r \in {"a-ref", "b-ref"} |->
                IF r = "a-ref"
                THEN [Form("C", own) EXCEPT
                        !.includes = <<IncludeSpec("b-ref", SomeStr("r"))>>]
                ELSE [Form("B", qs) EXCEPT !.validations = vs]] :
            own \in {<<>>, <<[Question("q3", "string") EXCEPT
                                !.visible_if = Answer("q1")]>>},
            qs \in ComposeQuestionLists \cup NestedQuestionLists,
            vs \in NestedValidations}
InitCompose ==
    /\ IdleEngine
    /\ IdleStore
    /\ IdleDriver
    /\ include_registry \in ComposeRegistries
    /\ root_form \in ComposeRoots
    /\ expansion = NoneV

ExpandIncludes ==
    /\ expansion = NoneV
    /\ expansion' = expand_includes(root_form, include_registry)
    /\ UNCHANGED <<engineVars, storeVars, driverVars, include_registry, root_form>>

NextCompose == ExpandIncludes

SpecCompose == InitCompose /\ [][NextCompose]_vars

\* The forms of the registry a form includes, in include order.
Included(form_, registry) ==
    {registry[form_.includes[i].form_ref] :
        i \in {k \in 1..Len(form_.includes) :
                form_.includes[k].form_ref \in DOMAIN registry}}

\* ids is the list of ids of a chain of forms from `from` on, each
\* including the next.
RECURSIVE IncludePath(_, _, _, _)
IncludePath(from, ids, i, registry) ==
    /\ from.id = ids[i]
    /\ i < Len(ids) =>
        \E next \in Included(from, registry) : IncludePath(next, ids, i + 1, registry)

\* The includes of root lead back to a form id already on the chain: some
\* chain of includes from root comes to an id a second time.
RECURSIVE LeadsBack(_, _, _)
LeadsBack(from, chain, registry) ==
    \/ \E k \in 1..Len(chain) : chain[k] = from.id
    \/ \E next \in Included(from, registry) :
            LeadsBack(next, Append(chain, from.id), registry)

\* The forms that chains of includes from root reach, root among them.
RECURSIVE ReachedFrom(_, _, _)
ReachedFrom(from, chain, registry) ==
    IF \E k \in 1..Len(chain) : chain[k] = from.id THEN {}
    ELSE {from} \cup UNION {ReachedFrom(next, Append(chain, from.id), registry) :
                                next \in Included(from, registry)}

\* The chain of a cycle error: it starts and ends with the same id, no id
\* in between repeats, and its ids are those of forms including each other
\* in this order, the first of them reached from root.
CycleChainFor(chain, root, registry) ==
    /\ Len(chain) >= 2
    /\ chain[1] = chain[Len(chain)]
    /\ \A a, b \in 1..(Len(chain) - 1) : a # b => chain[a] # chain[b]
    /\ \E first \in ReachedFrom(root, <<>>, registry) :
            IncludePath(first, chain, 1, registry)

\* The ids, after prefixing, of the questions of form_ and of the forms it
\* includes, in the order of the traversal; a reference the registry lacks
\* and a form already on the chain contribute nothing.
RECURSIVE QuestionIdsOf(_, _, _, _)
QuestionIdsOf(form_, prefix, chain, registry) ==
    IF \E k \in 1..Len(chain) : chain[k] = form_.id THEN <<>>
    ELSE LET own == [i \in 1..Len(form_.questions) |->
                        prefix_key(prefix, form_.questions[i].id)]
             RECURSIVE FromIncludes(_)
             FromIncludes(i) ==
                IF i > Len(form_.includes) THEN <<>>
                ELSE (IF form_.includes[i].form_ref \in DOMAIN registry
                      THEN QuestionIdsOf(registry[form_.includes[i].form_ref],
                                combine_prefix(prefix, form_.includes[i].prefix),
                                Append(chain, form_.id), registry)
                      ELSE <<>>) \o FromIncludes(i + 1)
         IN  own \o FromIncludes(1)

Distinct(ids) == \A a, b \in 1..Len(ids) : a # b => ids[a] # ids[b]

\* Some form reached from root includes a reference the registry lacks.
MissingTargetReached(root, registry) ==
    \E f \in ReachedFrom(root, <<>>, registry) :
        \E i \in 1..Len(f.includes) : f.includes[i].form_ref \notin DOMAIN registry

\* What the depth-first traversal of expand_includes comes to, in order: a
\* form already on the chain, each question of a form under its prefixed
\* id, then for each include a reference the registry lacks or the
\* traversal of the included form.
RECURSIVE TraversalEvents(_, _, _, _)
TraversalEvents(form_, prefix, chain, registry) ==
    IF \E k \in 1..Len(chain) : chain[k] = form_.id
    THEN <<[kind |-> "IncludeCycleDetected", id |-> form_.id]>>
    ELSE LET own == [i \in 1..Len(form_.questions) |->
                        [kind |-> "question",
                         id |-> prefix_key(prefix, form_.questions[i].id)]]
             RECURSIVE FromIncludes(_)
             FromIncludes(i) ==
                IF i > Len(form_.includes) THEN <<>>
                ELSE (IF form_.includes[i].form_ref \in DOMAIN registry
                      THEN TraversalEvents(registry[form_.includes[i].form_ref],
                                combine_prefix(prefix, form_.includes[i].prefix),
                                Append(chain, form_.id), registry)
                      ELSE <<[kind |-> "MissingIncludeTarget",
                              id |-> form_.includes[i].form_ref]>>)
                     \o FromIncludes(i + 1)
         IN  own \o FromIncludes(1)

\* The positions of the traversal at which the expansion cannot go on: a
\* form on the chain, a missing reference, a question id met before.
Failures(events) ==
    {i \in 1..Len(events) :
        \/ events[i].kind # "question"
        \/ \E j \in 1..(i - 1) :
                events[j].kind = "question" /\ events[j].id = events[i].id}

\* The error the first of them stands for, "Ok" when there is none.
FirstFailure(events) ==
    IF Failures(events) = {} THEN [kind |-> "Ok", id |-> ""]
    ELSE LET first == CHOOSE i \in Failures(events) :
                            \A j \in Failures(events) : i <= j
         IN  IF events[first].kind = "question"
             THEN [kind |-> "DuplicateQuestionId", id |-> events[first].id]
             ELSE events[first]

\* C9 as claimed: whenever the includes lead back to a form on the chain,
\* the expansion fails with IncludeCycleDetected and a well-formed chain.
C9_CycleAlwaysReported ==
    (expansion # NoneV /\ LeadsBack(root_form, <<>>, include_registry)) =>
        /\ expansion.kind = "IncludeCycleDetected"
        /\ CycleChainFor(expansion.chain, root_form, include_registry)

\* C9: a form whose includes lead back to a form id already on the chain
\* never expands.  The result is IncludeCycleDetected unless a duplicate
\* question id or a missing include target is met earlier in the
\* depth-first traversal, and then it is that error: the result is the
\* first failure of the traversal, and it is IncludeCycleDetected whenever
\* the prefixed question ids are pairwise distinct and every reference is
\* in the registry.  The chain of every IncludeCycleDetected starts and
\* ends with the re-entered id, with the ids in between in include order,
\* and is reported only when the includes do lead back; for A including B
\* including A it is [A, B, A].
C9_CycleReported ==
    expansion # NoneV =>
        LET back == LeadsBack(root_form, <<>>, include_registry)
            first == FirstFailure(TraversalEvents(root_form, "", <<>>,
                                                  include_registry))
        IN  /\ back => expansion.kind \in {"IncludeCycleDetected", "DuplicateQuestionId",
                                           "MissingIncludeTarget"}
            /\ (/\ back
                /\ Distinct(QuestionIdsOf(root_form, "", <<>>, include_registry))
                /\ ~MissingTargetReached(root_form, include_registry)) =>
                    expansion.kind = "IncludeCycleDetected"
            /\ back =>
                    /\ expansion.kind = first.kind
                    /\ expansion.kind \in {"DuplicateQuestionId", "MissingIncludeTarget"}
                            => expansion.detail = first.id
                    /\ expansion.kind = "IncludeCycleDetected"
                            => expansion.chain[Len(expansion.chain)] = first.id
            /\ expansion.kind = "IncludeCycleDetected" =>
                    /\ back
                    /\ CycleChainFor(expansion.chain, root_form, include_registry)
            /\ (/\ expansion.kind = "IncludeCycleDetected"
                /\ Len(root_form.includes) = 1
                /\ root_form.includes[1].form_ref = "b-ref"
                /\ "b-ref" \in DOMAIN include_registry
                /\ include_registry["b-ref"].id = "B"
                /\ Len(include_registry["b-ref"].includes) = 1
                /\ include_registry["b-ref"].includes[1].form_ref = "a-ref"
                /\ "a-ref" \in DOMAIN include_registry) =>
                    expansion.chain = <<"A", "B", "A">>

\* A including B including A, with questions kept apart by a prefix, has
\* been expanded and the chain [A, B, A] reported.
C9_Witness ==
    /\ expansion # NoneV
    /\ expansion.kind = "IncludeCycleDetected"
    /\ expansion.chain = <<"A", "B", "A">>
    /\ root_form.questions # <<>>
    /\ include_registry["b-ref"].questions # <<>>

\* C10 as claimed: every form without includes expands, against the empty
\* registry, to a form equal to it.
C10_NoIncludesIsIdentity ==
    (expansion # NoneV /\ root_form.includes = <<>> /\ include_registry = EmptyObj) =>
        /\ expansion.kind = "Ok"
        /\ expansion.form = root_form

\* C10: every form without includes whose question ids are pairwise
\* distinct expands, against the empty registry, to a form equal to it
\* field by field.
C10_NoIncludesDistinctIdsIsIdentity ==
    (expansion # NoneV /\ root_form.includes = <<>> /\ include_registry = EmptyObj
        /\ UniqueIds(root_form)) =>
        /\ expansion.kind = "Ok"
        /\ \A field \in DOMAIN root_form : expansion.form[field] = root_form[field]
        /\ DOMAIN expansion.form = DOMAIN root_form

\* A form of two questions and a validation, without includes, expanded
\* against the empty registry.
C10_Witness ==
    /\ expansion # NoneV
    /\ include_registry = EmptyObj
    /\ root_form.includes = <<>>
    /\ Len(root_form.questions) = 2
    /\ UniqueIds(root_form)
    /\ root_form.validations # <<>>
    /\ expansion.kind = "Ok"

----------------------------------------------------------------------------
(* C11: question ids after include expansion                               *)

\* C11 as claimed: a returned form has pairwise distinct question ids, and
\* whenever two questions of the root or of the forms included from it have
\* the same id after prefixing, the expansion fails with DuplicateQuestionId.
C11_DuplicateAlwaysReported ==
    expansion # NoneV =>
        /\ expansion.kind = "Ok" =>
                Distinct([i \in 1..Len(expansion.form.questions) |->
                            expansion.form.questions[i].id])
        /\ ~Distinct(QuestionIdsOf(root_form, "", <<>>, include_registry)) =>
                expansion.kind = "DuplicateQuestionId"

\* C11: a returned form has pairwise distinct question ids, which are the
\* prefixed ids of the root's and the included forms' questions in traversal
\* order.  When two of those ids are equal no form is returned: the error
\* is DuplicateQuestionId unless a missing include target or an include
\* cycle is met earlier in the traversal (it is DuplicateQuestionId when
\* every reference is in the registry and no include leads back), and a
\* DuplicateQuestionId error names an id that does occur twice.
C11_DistinctIdsOrError ==
    expansion # NoneV =>
        LET ids == QuestionIdsOf(root_form, "", <<>>, include_registry)
        IN  /\ expansion.kind = "Ok" =>
                    /\ Distinct([i \in 1..Len(expansion.form.questions) |->
                                    expansion.form.questions[i].id])
                    /\ [i \in 1..Len(expansion.form.questions) |->
                            expansion.form.questions[i].id] = ids
            /\ ~Distinct(ids) =>
                    expansion.kind \in {"DuplicateQuestionId", "MissingIncludeTarget",
                                         "IncludeCycleDetected"}
            /\ (/\ ~Distinct(ids)
                /\ ~MissingTargetReached(root_form, include_registry)
                /\ ~LeadsBack(root_form, <<>>, include_registry)) =>
                    expansion.kind = "DuplicateQuestionId"
            /\ expansion.kind = "DuplicateQuestionId" =>
                    \E a, b \in 1..Len(ids) :
                        a # b /\ ids[a] = expansion.detail /\ ids[b] = expansion.detail

\* The root's q1 meets the q1 of a form included without a prefix, and the
\* expansion has failed with DuplicateQuestionId for q1.
C11_Witness ==
    /\ expansion # NoneV
    /\ expansion.kind = "DuplicateQuestionId"
    /\ expansion.detail = "q1"
    /\ UniqueIds(root_form)
    /\ root_form.includes = <<IncludeSpec("b-ref", NoStr)>>
    /\ "b-ref" \in DOMAIN include_registry
    /\ UniqueIds(include_registry["b-ref"])
    /\ include_registry["b-ref"].includes = <<>>

----------------------------------------------------------------------------
(* SpecProgress: next_question on a form, a runtime context, answers and   *)
(* a visibility map                                                        *)

\* The shapes of a question: skipped when present in none, one or two
\* targets, without a default or with one, editable from it or not.
ProgressQuestions(id) ==
    {[Question(id, "string") EXCEPT
        !.policy = [skip_if_present_in |-> targets, editable_if_from_default |-> FALSE],
        !.default_value = default_value] :
        targets \in {{}, {"Config"}, {"Answers"}, {"State", "Secrets"}},
        default_value \in {NoStr, SomeStr("a")}}
    \cup
    {[Question(id, "string") EXCEPT
        !.policy = [skip_if_present_in |-> {}, editable_if_from_default |-> TRUE],
        !.default_value = SomeStr("a")]}

\* The progress policies of a form: absent, answered questions asked again,
\* and defaults filled in that count or do not count as answers.
ProgressPolicies ==
    {NoProgressPolicy,
     [some |-> TRUE, skip_answered |-> FALSE, autofill_defaults |-> FALSE,
      treat_default_as_answered |-> FALSE],
     [some |-> TRUE, skip_answered |-> TRUE, autofill_defaults |-> TRUE,
      treat_default_as_answered |-> TRUE],
     [some |-> TRUE, skip_answered |-> TRUE, autofill_defaults |-> TRUE,
      treat_default_as_answered |-> FALSE]}

ProgressForms ==
    {[Form("f", qs) EXCEPT !.progress_policy = policy] :
        qs \in {<<a>> : a \in ProgressQuestions("q1")}
               \cup {<<a, b>> : a \in ProgressQuestions("q1"),
                                b \in ProgressQuestions("q2")},
        policy \in ProgressPolicies}

\* The runtime contexts: config holding q1 or not, state holding q2 or not.
ProgressContexts ==
    {[EmptyCtx EXCEPT !.config = ObjToTree(config), !.state = ObjToTree(state)] :
        config \in {EmptyObj, [k \in {"q1"} |-> Str("a")]},
        state \in {EmptyObj, [k \in {"q2"} |-> Bool(TRUE)]}}

ProgressInputs ==
    {EmptyObj, [k \in {"q1"} |-> Str("a")], [k \in {"q2"} |-> Str("b")],
     [k \in {"q1", "q2"} |-> Str("a")]}

\* The visibility maps handed to next_question: the one resolve_visibility
\* gives, maps that hide a question, and a map without entries.
ProgressVisibilities(spec, answers) ==
    {resolve_visibility(spec, answers, "Visible"),
     [k \in {} |-> TRUE],
     [k \in {"q1"} |-> FALSE],
     [k \in {"q1", "q2"} |-> k = "q1"],
     [k \in {"q1", "q2"} |-> FALSE]}

InitProgress ==
    /\ form \in ProgressForms
    /\ context \in ProgressContexts
    /\ input \in ProgressInputs
    /\ call = Call("idle")
    /\ out = NoneV
    /\ IdleStore
    /\ IdleDriver
    /\ IdleCompose

\* next_question(&form, &ProgressContext::new(answers, ctx), &visibility)
NextQuestion ==
    /\ call.op = "idle"
    /\ \E visibility \in ProgressVisibilities(form, input) :
        /\ call' = Call("next_question")
        /\ out' = [visibility |-> visibility,
                   next |-> next_question(form, ProgressContext(input, context),
                                          visibility)]
    /\ UNCHANGED <<form, context, input, storeVars, driverVars, composeVars>>

NextProgress == NextQuestion

SpecProgress == InitProgress /\ [][NextProgress]_vars

\* The policy in force: the form's, or the default, which skips answered
\* questions.
PolicyInForce(spec) ==
    IF spec.progress_policy.some THEN spec.progress_policy
    ELSE [skip_answered |-> TRUE, autofill_defaults |-> FALSE,
          treat_default_as_answered |-> FALSE]

\* The id is a key of the member of the context, or of the answers, that
\* the target names.
PresentIn(target, id, answers, ctx) ==
    IF target = "Answers" THEN id \in DOMAIN answers
    ELSE LET tree == CASE target = "Config" -> ctx.config
                       [] target = "State" -> ctx.state
                       [] target = "PayloadOut" -> ctx.payload_out
                       [] target = "Secrets" -> ctx.secrets
         IN  \E p \in DOMAIN tree : p # <<>> /\ p[1] = id

\* The question counts as answered: it has an answer, or a default that the
\* policy fills in and treats as an answer and that is not editable.
Answered(question, answers, policy) ==
    \/ question.id \in DOMAIN answers
    \/ /\ policy.autofill_defaults
       /\ question.default_value.some
       /\ ~question.policy.editable_if_from_default
       /\ policy.treat_default_as_answered

Skipped(question, answers, ctx, policy) ==
    \/ \E target \in question.policy.skip_if_present_in :
            PresentIn(target, question.id, answers, ctx)
    \/ policy.skip_answered /\ Answered(question, answers, policy)

\* C15: next_question returns the first question in authored order that is
\* visible (by the visibility map, a question without an entry being
\* visible) and not skipped, None exactly when every visible question is
\* skipped; without a progress_policy a visible question that has an answer
\* is never returned.
C15_FirstVisibleNotSkipped ==
    call.op = "next_question" =>
        LET policy == PolicyInForce(form)
            open == {i \in 1..Len(form.questions) :
                        /\ is_visible(out.visibility, form.questions[i].id)
                        /\ ~Skipped(form.questions[i], input, context, policy)}
        IN  /\ (open = {}) <=> (out.next = NoStr)
            /\ open # {} =>
                    out.next = SomeStr(form.questions[
                        CHOOSE i \in open : \A j \in open : i <= j].id)
            /\ ~form.progress_policy.some =>
                    \A i \in 1..Len(form.questions) :
                        form.questions[i].id \in DOMAIN input =>
                            out.next # SomeStr(form.questions[i].id)

\* Without a progress_policy, q1 is present in the config it is skipped
\* for but has no answer, and next_question has passed it and returned q2.
C15_Witness ==
    /\ call.op = "next_question"
    /\ ~form.progress_policy.some
    /\ Len(form.questions) = 2
    /\ "Config" \in form.questions[1].policy.skip_if_present_in
    /\ input = EmptyObj
    /\ <<"q1">> \in DOMAIN context.config
    /\ is_visible(out.visibility, "q1")
    /\ out.next = SomeStr("q2")

----------------------------------------------------------------------------
(* SpecValidate: validate on forms with constraints, choices, lists,       *)
(* conditional questions and a cross-field validation                      *)

\* Some(Constraint): pattern is the set of the model's strings the regular
\* expression matches, empty for no pattern; the bounds are NoNum or
\* SomeNum(..).
Constraint(pattern, min, max, min_len, max_len) ==
    [some |-> TRUE, has_pattern |-> pattern # {}, pattern |-> pattern,
     min |-> min, max |-> max, min_len |-> min_len, max_len |-> max_len]

\* The shapes of q1: a required string, a string under a pattern and a
\* maximal length, an enum under a pattern, a number between bounds.
ValidateFirstQuestions ==
    {[Question("q1", "string") EXCEPT !.required = TRUE],
     [Question("q1", "string") EXCEPT
        !.constraint = Constraint({"a", "b"}, NoNum, NoNum, NoNum, SomeNum(1))],
     [Question("q1", "enum") EXCEPT
        !.choices = Choices(<<"a", "true">>),
        !.constraint = Constraint({"a", "b"}, NoNum, NoNum, SomeNum(2), NoNum)],
     [Question("q1", "number") EXCEPT
        !.constraint = Constraint({}, SomeNum(1), SomeNum(2), NoNum, NoNum)]}

\* The fields of a list entry: a required string and an optional boolean.
EntryFields ==
    <<[Question("tenant", "string") EXCEPT !.required = TRUE],
      Question("team", "boolean")>>

\* The shapes of q2: a required boolean, a boolean shown when q1 is set, a
\* list of one or two entries, a list of any length, a list without a
\* definition.
ValidateSecondQuestions ==
    {[Question("q2", "boolean") EXCEPT !.required = TRUE],
     [Question("q2", "boolean") EXCEPT !.required = TRUE, !.visible_if = IsSet("q1")],
     [Question("q2", "list") EXCEPT
        !.list = ListSpec(SomeNum(1), SomeNum(2), EntryFields)],
     [Question("q2", "list") EXCEPT !.list = ListSpec(NoNum, NoNum, EntryFields)],
     Question("q2", "list")}

ValidateValidations ==
    {<<>>,
     <<CrossFieldValidation(SomeStr("v1"), <<"q1", "q2">>,
                            Cmp("eq", Answer("q1"), Literal(Str("a")))),
       CrossFieldValidation(SomeStr("v2"), <<>>, Not(IsSet("q2")))>>,
     <<CrossFieldValidation(SomeStr("v3"), <<"q2">>, Not(IsSet("q1")))>>}

ValidateForms ==
    {[Form("f", qs) EXCEPT !.validations = vs] :
        qs \in {<<a>> : a \in ValidateFirstQuestions}
               \cup {<<a, b>> : a \in ValidateFirstQuestions,
                                b \in ValidateSecondQuestions},
        vs \in ValidateValidations}

\* The values of q1, q2 and of the unknown key zz; NoneV stands for a key
\* the answers do not hold.
ValidateFirstValues == {NoneV, Str("a"), Str("no"), Str("true"), Num(0), Num(2)}

ValidateSecondValues ==
    {NoneV, Bool(TRUE), Str("a"),
     Arr(<<>>),
     Arr(<<[k \in {"tenant"} |-> Str("a")]>>),
     Arr(<<[tenant |-> Str("a"), team |-> Str("a")], Str("a")>>),
     Arr(<<[k \in {"team"} |-> Bool(TRUE)], [k \in {"tenant"} |-> Num(0)]>>),
     Arr(<<Str("a"), Str("a"), Str("a")>>)}

ValidateInputs ==
    {Null}
    \cup {[k \in {key \in {"q1", "q2", "zz"} :
                    (key = "q1" /\ a # NoneV) \/ (key = "q2" /\ b # NoneV)
                    \/ (key = "zz" /\ c # NoneV)} |->
            CASE k = "q1" -> a [] k = "q2" -> b [] OTHER -> c] :
            a \in ValidateFirstValues, b \in ValidateSecondValues,
            c \in {NoneV, Str("a")}}

InitValidate ==
    /\ form \in ValidateForms
    /\ context = EmptyCtx
    /\ input \in ValidateInputs
    /\ call = Call("idle")
    /\ out = NoneV
    /\ IdleStore
    /\ IdleDriver
    /\ IdleCompose

\* validate(&form, &answers)
Validate ==
    /\ call.op = "idle"
    /\ call' = Call("validate")
    /\ out' = validate(form, input)
    /\ UNCHANGED <<form, context, input, storeVars, driverVars, composeVars>>

NextValidate == Validate

SpecValidate == InitValidate /\ [][NextValidate]_vars

\* C16: the result of validate is valid exactly when errors,
\* missing_required and unknown_fields are all empty, and every key of the
\* answers that is not a question id of the form is in unknown_fields, so
\* that its result is not valid.
C16_ValidIffNothingReported ==
    call.op = "validate" =>
        /\ out.valid <=> (/\ out.errors = <<>>
                          /\ out.missing_required = <<>>
                          /\ out.unknown_fields = <<>>)
        /\ \A key \in DOMAIN as_object(input) :
                (\A i \in 1..Len(form.questions) : form.questions[i].id # key) =>
                    /\ \E k \in 1..Len(out.unknown_fields) : out.unknown_fields[k] = key
                    /\ ~out.valid
        /\ \A k \in 1..Len(out.unknown_fields) :
                /\ out.unknown_fields[k] \in DOMAIN as_object(input)
                /\ \A i \in 1..Len(form.questions) :
                        form.questions[i].id # out.unknown_fields[k]

\* Answers whose values all pass and whose only flaw is the unknown key zz
\* have been found not valid.
C16_Witness ==
    /\ call.op = "validate"
    /\ out.errors = <<>>
    /\ out.missing_required = <<>>
    /\ out.unknown_fields = <<"zz">>
    /\ ~out.valid
    /\ Len(form.questions) = 2
    /\ {"q1", "q2"} \subseteq DOMAIN input

\* The checks of a value in the order validate_value makes them, without
\* those of a list.
CheckOrder ==
    <<"type_mismatch", "pattern_mismatch", "min_length", "max_length", "min", "max",
      "enum_mismatch">>

\* The value violates the check of that code of the question.
Violates(question, value, code) ==
    CASE code = "type_mismatch" ->
            ~(\/ question.kind \in {"string", "enum"} /\ value.t = "str"
              \/ question.kind = "boolean" /\ value.t = "bool"
              \/ question.kind \in {"integer", "number"} /\ value.t = "num"
              \/ question.kind = "list" /\ value.t = "array")
      [] code = "pattern_mismatch" ->
            /\ question.constraint.some /\ question.constraint.has_pattern
            /\ value.t = "str" /\ value.s \notin question.constraint.pattern
      [] code = "min_length" ->
            /\ question.constraint.some /\ question.constraint.min_len.some
            /\ value.t = "str" /\ Len(value.s) < question.constraint.min_len.n
      [] code = "max_length" ->
            /\ question.constraint.some /\ question.constraint.max_len.some
            /\ value.t = "str" /\ Len(value.s) > question.constraint.max_len.n
      [] code = "min" ->
            /\ question.constraint.some /\ question.constraint.min.some
            /\ value.t = "num" /\ value.n < question.constraint.min.n
      [] code = "max" ->
            /\ question.constraint.some /\ question.constraint.max.some
            /\ value.t = "num" /\ value.n > question.constraint.max.n
      [] code = "enum_mismatch" ->
            /\ question.kind = "enum" /\ question.choices.some /\ value.t = "str"
            /\ \A i \in 1..Len(question.choices.items) :
                    question.choices.items[i] # value.s

\* The code of the first check of CheckOrder the value violates, "none"
\* when it violates none.
FirstViolated(question, value) ==
    LET violated == {k \in 1..Len(CheckOrder) : Violates(question, value, CheckOrder[k])}
    IN  IF violated = {} THEN "none"
        ELSE CheckOrder[CHOOSE k \in violated : \A m \in violated : k <= m]

\* What an error says of the place and the check, without its message.
Reported(error) ==
    [question_id |-> error.question_id, path |-> error.path, code |-> error.code]
NoProblem == Reported(NoError)

\* What is wrong with entry idx (counted from 0) of the list question: it
\* is not an object, or the first of its fields that is required and
\* missing or whose value violates a check.
EntryProblem(question, idx, entry) ==
    IF ~IsObject(entry)
    THEN [question_id |-> question.id,
          path |-> "/" \o question.id \o "/" \o IndexText[idx + 1],
          code |-> "entry_type"]
    ELSE LET fields == question.list.fields
             code(j) ==
                IF fields[j].id \notin DOMAIN entry
                THEN IF fields[j].required THEN "missing_field" ELSE "none"
                ELSE FirstViolated(fields[j], entry[fields[j].id])
             bad == {j \in 1..Len(fields) : code(j) # "none"}
         IN  IF bad = {} THEN NoProblem
             ELSE LET j == CHOOSE j \in bad : \A m \in bad : j <= m
                  IN  [question_id |-> question.id \o "[" \o IndexText[idx + 1]
                                            \o "]." \o fields[j].id,
                       path |-> "/" \o question.id \o "/" \o IndexText[idx + 1]
                                    \o "/" \o fields[j].id,
                       code |-> code(j)]

\* The entries of the array that have a problem, by index counted from 0.
BadEntries(question, value) ==
    {idx \in 0..(Len(value.items) - 1) :
        EntryProblem(question, idx, value.items[idx + 1]) # NoProblem}

\* The one error validate reports for the value of a question: the first
\* violated check in the order type, list (definition, min_items,
\* max_items, first bad entry), constraint, enum; NoProblem if none.
ExpectedError(question, value) ==
    IF Violates(question, value, "type_mismatch")
    THEN [question_id |-> question.id, path |-> "/" \o question.id,
          code |-> "type_mismatch"]
    ELSE IF question.kind = "list"
    THEN IF ~question.list.some
         THEN [question_id |-> question.id, path |-> "/" \o question.id,
               code |-> "missing_list_definition"]
         ELSE IF question.list.min_items.some
                 /\ Len(value.items) < question.list.min_items.n
         THEN [question_id |-> question.id, path |-> "/" \o question.id,
               code |-> "min_items"]
         ELSE IF question.list.max_items.some
                 /\ Len(value.items) > question.list.max_items.n
         THEN [question_id |-> question.id, path |-> "/" \o question.id,
               code |-> "max_items"]
         ELSE IF BadEntries(question, value) = {} THEN NoProblem
         ELSE LET idx == CHOOSE idx \in BadEntries(question, value) :
                            \A m \in BadEntries(question, value) : idx <= m
              IN  EntryProblem(question, idx, value.items[idx + 1])
    ELSE IF FirstViolated(question, value) = "none" THEN NoProblem
    ELSE [question_id |-> question.id, path |-> "/" \o question.id,
          code |-> FirstViolated(question, value)]

\* The questions validate looks at: visible under the computed answers.
VisibleQuestions(spec, answers) ==
    LET computed_answers == apply_computed_answers(spec, answers)
        visibility == resolve_visibility(spec, computed_answers, "Visible")
    IN  {i \in 1..Len(spec.questions) : is_visible(visibility, spec.questions[i].id)}

\* The cross-field validations whose condition is true.
TrueConditions(spec, answers) ==
    {v \in 1..Len(spec.validations) :
        evaluate_bool(spec.validations[v].condition,
                      build_expression_context(apply_computed_answers(spec, answers)))
            = Bool(TRUE)}

\* What C17 says of missing required questions, unknown fields and
\* cross-field conditions: each is reported in the one result.
OthersReported ==
    LET answers == apply_computed_answers(form, input)
    IN  /\ \A i \in VisibleQuestions(form, input) :
                (form.questions[i].required /\ form.questions[i].id \notin DOMAIN answers)
                    <=> \E k \in 1..Len(out.missing_required) :
                            out.missing_required[k] = form.questions[i].id
        /\ \A key \in DOMAIN answers :
                (\A i \in 1..Len(form.questions) : form.questions[i].id # key)
                    <=> \E k \in 1..Len(out.unknown_fields) : out.unknown_fields[k] = key
        /\ \A v \in TrueConditions(form, input) :
                \E k \in 1..Len(out.errors) :
                    /\ out.errors[k].code = form.validations[v].code
                    /\ out.errors[k].path =
                            IF form.validations[v].fields = <<>> THEN ""
                            ELSE "/" \o form.validations[v].fields[1]

\* C17 as claimed: every check a visible question's value violates, each
\* violated constraint and each bad list entry included, is reported in the
\* result, with every true cross-field condition, missing required
\* question and unknown field.
C17_EveryViolationReported ==
    call.op = "validate" =>
        LET answers == apply_computed_answers(form, input)
        IN  /\ OthersReported
            /\ \A i \in VisibleQuestions(form, input) :
                    form.questions[i].id \in DOMAIN answers =>
                        LET question == form.questions[i]
                            value == answers[question.id]
                        IN  /\ \A c \in 1..Len(CheckOrder) :
                                    Violates(question, value, CheckOrder[c]) =>
                                        \E k \in 1..Len(out.errors) :
                                            /\ out.errors[k].question_id = question.id
                                            /\ out.errors[k].code = CheckOrder[c]
                            /\ (question.kind = "list" /\ value.t = "array"
                                    /\ ExpectedError(question, value).code
                                            \notin {"missing_list_definition",
                                                    "min_items", "max_items"}) =>
                                    \A idx \in BadEntries(question, value) :
                                        \E k \in 1..Len(out.errors) :
                                            Reported(out.errors[k]) =
                                                EntryProblem(question, idx,
                                                             value.items[idx + 1])

\* C17: one validate call reports the errors of all questions together:
\* for every visible question that has a value violating a check, exactly
\* one error, that of the first violated check in the order type, list
\* (definition, min_items, max_items, first bad entry and its first bad
\* field), constraint (pattern, min_len, max_len, min, max), enum; every
\* true cross-field condition, every missing required question and every
\* unknown field is reported in the same result, and nothing else is.
C17_FirstViolationOfEveryQuestion ==
    call.op = "validate" =>
        LET answers == apply_computed_answers(form, input)
            failing == {i \in VisibleQuestions(form, input) :
                            /\ form.questions[i].id \in DOMAIN answers
                            /\ ExpectedError(form.questions[i],
                                             answers[form.questions[i].id]) # NoProblem}
        IN  /\ OthersReported
            /\ \A i \in failing :
                    \E k \in 1..Len(out.errors) :
                        Reported(out.errors[k]) = ExpectedError(form.questions[i],
                                                      answers[form.questions[i].id])
            /\ Len(out.errors) =
                    Cardinality(failing) + Cardinality(TrueConditions(form, input))
            /\ Len(out.missing_required) =
                    Cardinality({i \in VisibleQuestions(form, input) :
                        /\ form.questions[i].required
                        /\ form.questions[i].id \notin DOMAIN answers})

\* Both questions are in error, a cross-field condition is true and an
\* unknown key is present: one result holds the three errors and the key.
C17_Witness ==
    /\ call.op = "validate"
    /\ Len(form.questions) = 2
    /\ Len(out.errors) = 3
    /\ out.errors[1].question_id = "q1"
    /\ out.errors[2].code = "missing_field"
    /\ out.errors[3].code = "cross"
    /\ out.unknown_fields = <<"zz">>

----------------------------------------------------------------------------
(* SpecWizard: QaRunner::run_wizard                                        *)
(*                                                                         *)
(* input is the run's configuration: the initial answers and the kind of   *)
(* answer provider.  call.op is the position of run_wizard: "loop" at the  *)
(* top of the loop, "ask" before the provider is called for                *)
(* call.question_id, "finish" after the loop, "returned" once run_wizard   *)
(* has returned out.result.  The loop has no bound.  out.asks records, for *)
(* each question id, how often the provider was called for it; the record  *)
(* stops counting at MaxAsks, the loop does not stop.                      *)

\* The count of provider calls for one question beyond which out.asks no
\* longer tells the counts apart.
MaxAsks == 2

WizardQuestions(id) ==
    {Question(id, "string"),
     [Question(id, "string") EXCEPT !.required = TRUE],
     [Question(id, "boolean") EXCEPT !.required = TRUE],
     [Question(id, "enum") EXCEPT !.required = TRUE, !.choices = Choices(<<"b">>)],
     [Question(id, "boolean") EXCEPT
        !.visible_if = Cmp("eq", Answer("q1"), Literal(Str("a")))],
     [Question(id, "string") EXCEPT !.computed = Literal(Str("a"))],
     [Question(id, "string") EXCEPT !.computed = Answer("zz")]}

\* Forms of one or two questions with distinct ids and no cross-field
\* validations, without store ops or with one write to the state.
WizardForms ==
    {[Form("f", qs) EXCEPT !.store = ops] :
        qs \in {<<a>> : a \in WizardQuestions("q1")}
               \cup {<<a, b>> : a \in WizardQuestions("q1"),
                                b \in WizardQuestions("q2")},
        ops \in PlanStores}

\* The initial answers of a run: none, or a prefilled answer to q2.
WizardInitialAnswers == {NoneV, [k \in {"q2"} |-> Bool(TRUE)]}

\* The answer providers of a run: None (run_wizard_non_interactive), a
\* provider whose every answer passes the asked question's type,
\* constraint and choice checks, and a provider that may answer anything
\* or fail.
AnswerProviders == {"None", "Passing", "Any"}

WizardRunConfigs ==
    [initial_answers_json : WizardInitialAnswers, answer_provider : AnswerProviders]

ProviderValues == {Str("a"), Str("b"), Bool(TRUE), Bool(FALSE)}

\* The error a failing provider returns.
ProviderError == DriverErr([kind |-> "Component", error |-> NoneV])

\* What the provider may return for a question: Ok(value) or Err.
ProviderAnswers(answer_provider, question) ==
    IF answer_provider = "Passing"
    THEN {DriverOk(value) : value \in
            {v \in ProviderValues : validate_value(question, v) = NoError}}
    ELSE {DriverOk(value) : value \in ProviderValues} \cup {ProviderError}

\* find_question: the first entry of the payload's questions with the id.
find_question(ui, question_id) ==
    IF \E i \in 1..Len(ui.questions) : ui.questions[i].id = question_id
    THEN DriverOk(ui.questions[
            CHOOSE i \in 1..Len(ui.questions) :
                /\ ui.questions[i].id = question_id
                /\ \A j \in 1..(i - 1) : ui.questions[j].id # question_id])
    ELSE DriverErr([kind |-> "MissingField", error |-> NoneV])

\* The question of the form the provider is asked about.
AskedQuestion(spec, question_id) ==
    spec.questions[CHOOSE i \in 1..Len(spec.questions) :
                        spec.questions[i].id = question_id]

Running(op, question_id, asks) ==
    [call |-> [op |-> op, question_id |-> question_id, value |-> NoneV],
     out |-> [asks |-> asks, result |-> NoneV]]

Returned(result, asks) ==
    [call |-> Call("returned"), out |-> [asks |-> asks, result |-> result]]

\* out.asks after one more call of the provider for question_id.
Asked(asks, question_id) ==
    [asks EXCEPT ![question_id] = IF @ < MaxAsks THEN @ + 1 ELSE @]

InitWizard ==
    /\ form \in WizardForms
    /\ context = EmptyCtx
    /\ input \in WizardRunConfigs
    /\ input.initial_answers_json # NoneV =>
            /\ validate(form, input.initial_answers_json).unknown_fields = <<>>
            /\ validate(form, input.initial_answers_json).errors = <<>>
    /\ call = Call("loop")
    /\ out = [asks |-> [id \in {"q1", "q2"} |-> 0], result |-> NoneV]
    /\ IdleStore
    /\ driver = WizardDriver_new(input.initial_answers_json)
    /\ reply = Replied("new", NoneV, NoneV, DriverOk(NoneV))
    /\ IdleCompose

\* The top of the loop: next_payload_json, the break when the driver is
\* complete, else the next question id and its entry in the payload.
WizardNextPayload ==
    /\ call.op = "loop"
    /\ \E done \in {next_payload_json(driver, form, context)} :
        /\ driver' = done.driver
        /\ reply' = Replied("next_payload_json", driver, NoneV, done.result)
        /\ \E step \in {
              IF done.result.kind = "Err" THEN Returned(done.result, out.asks)
              ELSE IF done.driver.complete THEN Running("finish", "", out.asks)
              ELSE IF ~done.driver.last_ui_json.next_question_id.some
              THEN Returned(DriverErr([kind |-> "MissingField", error |-> NoneV]),
                            out.asks)
              ELSE IF find_question(done.driver.last_ui_json,
                        done.driver.last_ui_json.next_question_id.s).kind = "Err"
              THEN Returned(find_question(done.driver.last_ui_json,
                        done.driver.last_ui_json.next_question_id.s), out.asks)
              ELSE Running("ask", done.driver.last_ui_json.next_question_id.s,
                           out.asks)} :
            /\ call' = step.call
            /\ out' = step.out
    /\ UNCHANGED <<form, context, input, storeVars, composeVars>>

\* The rest of the loop body: without a provider the run ends with
\* Err(NeedsInteraction); an Err of the provider is returned as it is; the
\* provider's answer is submitted as a patch of one key, and the status
\* "error" ends the run with Err(Validation).
WizardAnswer ==
    /\ call.op = "ask"
    /\ IF input.answer_provider = "None"
       THEN /\ call' = Call("returned")
            /\ out' = [out EXCEPT !.result =
                            DriverErr([kind |-> "NeedsInteraction", error |-> NoneV])]
            /\ UNCHANGED <<driver, reply>>
       ELSE \E answer \in ProviderAnswers(input.answer_provider,
                                          AskedQuestion(form, call.question_id)) :
            IF answer.kind = "Err"
            THEN /\ call' = Call("returned")
                 /\ out' = [asks |-> Asked(out.asks, call.question_id),
                            result |-> answer]
                 /\ UNCHANGED <<driver, reply>>
            ELSE
            \E done \in {submit_patch_json(driver, form, context,
                            [k \in {call.question_id} |-> answer.value])} :
                /\ driver' = done.driver
                /\ reply' = Replied("submit_patch_json", driver,
                                    [k \in {call.question_id} |-> answer.value],
                                    done.result)
                /\ \E step \in {
                      IF done.result.kind = "Err"
                      THEN Returned(done.result, Asked(out.asks, call.question_id))
                      ELSE IF done.result.value.status = "error"
                      THEN Returned(DriverErr([kind |-> "Validation",
                                        error |-> done.result.value.response_json]),
                                    Asked(out.asks, call.question_id))
                      ELSE Running("loop", "", Asked(out.asks, call.question_id))} :
                    /\ call' = step.call
                    /\ out' = step.out
    /\ UNCHANGED <<form, context, input, storeVars, composeVars>>

\* After the loop: driver.finish().
WizardFinish ==
    /\ call.op = "finish"
    /\ call' = Call("returned")
    /\ out' = [out EXCEPT !.result = finish(driver, form)]
    /\ reply' = Replied("finish", driver, NoneV, finish(driver, form))
    /\ UNCHANGED <<form, context, input, storeVars, driver, composeVars>>

NextWizard == WizardNextPayload \/ WizardAnswer \/ WizardFinish

\* run_wizard is one sequential call: a step that can be taken is taken.
SpecWizard == InitWizard /\ [][NextWizard]_vars /\ WF_vars(NextWizard)

AsksEachAtMostOnce == \A id \in DOMAIN out.asks : out.asks[id] <= 1

NoValidationError ==
    ~(call.op = "returned" /\ out.result.kind = "Err"
        /\ out.result.value.kind = "Validation")

ReturnedOk == call.op = "returned" /\ out.result.kind = "Ok"

\* C20: run_wizard on a form with distinct question ids and no cross-field
\* validations, with a provider whose answers pass the asked question's
\* type, constraint and choice checks, asks no question twice, never
\* returns Err(Validation), and eventually returns Ok with an AnswerSet.
C20_RunWizardCompletes ==
    input.answer_provider = "Passing" =>
        /\ [](AsksEachAtMostOnce /\ NoValidationError)
        /\ <>ReturnedOk

----------------------------------------------------------------------------
(* The answers a complete driver emits (SpecDriver)                        *)

\* C21: finish returns an AnswerSet exactly when the driver is complete
\* and Err(NeedsInteraction) otherwise, and whenever the driver is complete
\* the answers it holds pass validate for the form.
C21_CompleteAnswersAreValid ==
    /\ reply.op = "finish" =>
            IF reply.before.complete
            THEN reply.result.kind = "Ok"
                 /\ reply.result.value.answers = reply.before.answers
            ELSE reply.result = DriverErr([kind |-> "NeedsInteraction",
                                           error |-> NoneV])
    /\ driver.complete => validate(form, driver.answers).valid

----------------------------------------------------------------------------
(* SpecRender: the component entry points next_with_ctx and render_json_ui *)
(* on one form, context and answers                                        *)

\* next_with_ctx(form_id, config_json, ctx_json, answers_json) of
\* component-qa: visibility and progress on the answers as they were
\* handed in.
next_with_ctx(spec, ctx, answers) ==
    With(resolve_visibility(spec, answers, "Visible"), LAMBDA visibility :
    With(ProgressContext(answers, ctx), LAMBDA progress_ctx :
    With(next_question(spec, progress_ctx, visibility), LAMBDA next_q :
    With(answered_count(progress_ctx, spec, visibility), LAMBDA answered :
    With(Cardinality({k \in DOMAIN visibility : visibility[k]}), LAMBDA total :
        [status |-> IF next_q.some THEN "need_input" ELSE "complete",
         next_question_id |-> next_q,
         progress |-> [answered |-> answered, total |-> total]])))))

\* The shapes of a question: plain, with a default, skipped when the config
\* holds it, computed from a constant or from q1, and shown depending on an
\* answer to q1 or on a computed value of q2.
RenderQuestions(id) ==
    {Question(id, "string"),
     [Question(id, "string") EXCEPT !.required = TRUE,
                                    !.default_value = SomeStr("a")],
     [Question(id, "string") EXCEPT
        !.policy = [skip_if_present_in |-> {"Config"},
                    editable_if_from_default |-> FALSE]],
     [Question(id, "string") EXCEPT !.computed = Literal(Str("a"))],
     [Question(id, "string") EXCEPT !.computed = Answer("q1"),
                                    !.computed_overridable = TRUE],
     [Question(id, "boolean") EXCEPT
        !.visible_if = Cmp("eq", Answer("q1"), Literal(Str("a")))],
     [Question(id, "boolean") EXCEPT !.visible_if = IsSet("q2")]}

\* Forms of one question, of two questions q1 and q2, and of two questions
\* that share the id q1.
RenderForms ==
    {[Form("f", qs) EXCEPT !.progress_policy = policy] :
        qs \in {<<a>> : a \in RenderQuestions("q1")}
               \cup {<<a, b>> : a \in RenderQuestions("q1"),
                                b \in RenderQuestions("q2")}
               \cup {<<a, b>> : a \in {Question("q1", "string")},
                                b \in RenderQuestions("q1")},
        policy \in ProgressPolicies}

RenderContexts ==
    {[EmptyCtx EXCEPT !.config = ObjToTree(config)] :
        config \in {EmptyObj, [k \in {"q1"} |-> Str("a")]}}

RenderInputs ==
    {Null, EmptyObj, [k \in {"q1"} |-> Str("a")], [k \in {"q2"} |-> Str("b")],
     [k \in {"q1", "q2"} |-> Str("a")], [k \in {"q1", "q2"} |-> Str("b")]}

InitRender ==
    /\ form \in RenderForms
    /\ context \in RenderContexts
    /\ input \in RenderInputs
    /\ call = Call("idle")
    /\ out = [next |-> NoneV, ui |-> NoneV]
    /\ IdleStore
    /\ IdleDriver
    /\ IdleCompose

\* next_with_ctx(form_id, config_json, ctx_json, answers_json)
NextWithCtx ==
    /\ out.next = NoneV
    /\ call' = Call("next_with_ctx")
    /\ out' = [out EXCEPT !.next = next_with_ctx(form, context, input)]
    /\ UNCHANGED <<form, context, input, storeVars, driverVars, composeVars>>

\* render_json_ui(form_id, config_json, ctx_json, answers_json)
RenderJsonUi ==
    /\ out.ui = NoneV
    /\ call' = Call("render_json_ui")
    /\ out' = [out EXCEPT !.ui = render_json_ui(form, context, input)]
    /\ UNCHANGED <<form, context, input, storeVars, driverVars, composeVars>>

NextRender == NextWithCtx \/ RenderJsonUi

SpecRender == InitRender /\ [][NextRender]_vars

\* C22: for the same form, context and answers, next_with_ctx and
\* render_json_ui return the same status, next_question_id and progress
\* counters, on forms with computed questions and visible_if included.
C22_NextAgreesWithRender ==
    (out.next # NoneV /\ out.ui # NoneV) =>
        /\ out.next.status = out.ui.status
        /\ out.next.next_question_id = out.ui.next_question_id
        /\ out.next.progress = out.ui.progress

\* C30: in the render payload of a form with distinct question ids,
\* progress.answered is at most progress.total, and when the policy in
\* force skips answered questions and no question has skip_if_present_in,
\* the status is complete exactly when answered equals total.
C30_AnsweredWithinTotal ==
    (out.ui # NoneV /\ UniqueIds(form)) =>
        /\ out.ui.progress.answered <= out.ui.progress.total
        /\ (/\ PolicyInForce(form).skip_answered
            /\ \A i \in 1..Len(form.questions) :
                    form.questions[i].policy.skip_if_present_in = {})
            => ((out.ui.status = "complete")
                    <=> (out.ui.progress.answered = out.ui.progress.total))

\* A complete payload of two questions without a progress policy: q2 has
\* an answer and is hidden, so one question of one is answered.
C30_Witness ==
    /\ out.ui # NoneV
    /\ UniqueIds(form)
    /\ ~form.progress_policy.some
    /\ Len(form.questions) = 2
    /\ IsObject(input)
    /\ "q2" \in DOMAIN input
    /\ ~out.ui.questions[2].visible
    /\ out.ui.status = "complete"
    /\ out.ui.progress = [answered |-> 1, total |-> 1]

----------------------------------------------------------------------------
(* SpecExpr: Expr::evaluate_value on comparisons and logical operators     *)
(*                                                                         *)
(* call.value holds the expression, input the answers the expression       *)
(* context is built from, out the value (NoneV for None).                  *)

\* The operands of a comparison: literals of every leaf type, answers that
\* are present or absent, variables, the whole answers object (the empty
\* path) and an answer addressed by a JSON pointer and through "answers".
ExprValues ==
    {Null, Bool(TRUE), Bool(FALSE), Num(0), Num(1), Str("a"), Str("b")}

CompareOperands ==
    {Literal(v) : v \in ExprValues}
    \cup {Answer("q1"), Answer("zz"), Var("q2"), Answer(""), Answer("/q1"),
          Var("answers.q1")}

CompareOps == {"eq", "ne", "lt", "lte", "gt", "gte"}

CompareExprs ==
    {Cmp(o, l, r) : o \in CompareOps, l \in CompareOperands, r \in CompareOperands}

\* The operands of a logical operator: expressions that coerce to true, to
\* false, or to None.
LogicalOperands ==
    {Literal(Bool(TRUE)), Literal(Bool(FALSE)), Literal(Str("yes")),
     Literal(Str("No")), Literal(Null), Literal(Str("x")), Answer("zz")}

\* The longest operand list of And and Or.
MaxOperands == 3

LogicalLists == UNION {[1..n -> LogicalOperands] : n \in 0..MaxOperands}

LogicalExprs ==
    {And(xs) : xs \in LogicalLists} \cup {Or(xs) : xs \in LogicalLists}
    \cup {Not(x) : x \in LogicalOperands}
    \cup {Not(And(<<x, y>>)) : x, y \in LogicalOperands}
    \cup {And(<<Or(<<x, y>>), z>>) : x, y, z \in {Literal(Bool(TRUE)),
                                                  Literal(Bool(FALSE)), Answer("zz")}}

ExprInputs ==
    {EmptyObj, [k \in {"q1"} |-> Str("a")], [q1 |-> Num(1), q2 |-> Bool(TRUE)]}

InitExpr ==
    /\ form = Form("idle", <<>>)
    /\ context = EmptyCtx
    /\ input \in ExprInputs
    /\ \E expr \in CompareExprs \cup LogicalExprs :
            call = [op |-> "idle", question_id |-> "", value |-> expr]
    /\ out = NoneV
    /\ IdleStore
    /\ IdleDriver
    /\ IdleCompose

\* expr.evaluate_value(&build_expression_context(&answers))
EvaluateValue ==
    /\ call.op = "idle"
    /\ call' = [call EXCEPT !.op = "evaluate_value"]
    /\ out' = [value |-> evaluate_value(call.value, build_expression_context(input))]
    /\ UNCHANGED <<form, context, input, storeVars, driverVars, composeVars>>

\* expr.evaluate_bool(&build_expression_context(&answers))
EvaluateBool ==
    /\ call.op = "idle"
    /\ call' = [call EXCEPT !.op = "evaluate_bool"]
    /\ out' = [value |-> evaluate_bool(call.value, build_expression_context(input))]
    /\ UNCHANGED <<form, context, input, storeVars, driverVars, composeVars>>

NextExpr == EvaluateValue \/ EvaluateBool

SpecExpr == InitExpr /\ [][NextExpr]_vars

\* The values of the two operands of the comparison in call.value.
LeftValue == evaluate_value(call.value.left, build_expression_context(input))
RightValue == evaluate_value(call.value.right, build_expression_context(input))

ComparisonEvaluated ==
    call.op = "evaluate_value" /\ call.value.op \in CompareOps

\* The JSON type of a value.
JsonType(value) == IF IsObject(value) THEN "object" ELSE value.t

\* C23 as stated: each of Eq, Ne, Lt, Lte, Gt and Gte evaluates to None
\* when an operand evaluates to None, and to None when the operands
\* evaluate to values of different JSON types.
C23_MismatchIsNone ==
    ComparisonEvaluated =>
        /\ (~IsSome(LeftValue) \/ ~IsSome(RightValue)) => out.value = NoneV
        /\ (IsSome(LeftValue) /\ IsSome(RightValue)
            /\ JsonType(LeftValue) # JsonType(RightValue))
                => out.value = NoneV

\* C23: each of the six operators evaluates to None when an operand
\* evaluates to None; on operands of different JSON types Lt, Lte, Gt and
\* Gte evaluate to None, Eq to false and Ne to true.
C23_MismatchIsNoneForOrdering ==
    ComparisonEvaluated =>
        /\ (~IsSome(LeftValue) \/ ~IsSome(RightValue)) => out.value = NoneV
        /\ (IsSome(LeftValue) /\ IsSome(RightValue)
            /\ JsonType(LeftValue) # JsonType(RightValue))
                => out.value =
                        CASE call.value.op = "eq" -> Bool(FALSE)
                          [] call.value.op = "ne" -> Bool(TRUE)
                          [] OTHER -> NoneV

\* Lte on an answer that is a number and a literal string has given None.
C23_Witness ==
    /\ ComparisonEvaluated
    /\ call.value.op = "lte"
    /\ call.value.left = Answer("q1")
    /\ LeftValue = Num(1)
    /\ RightValue = Str("a")
    /\ out.value = NoneV

\* What the operands of the And or Or in call.value coerce to, in order.
OperandBools ==
    [i \in 1..Len(call.value.expressions) |->
        evaluate_bool(call.value.expressions[i], build_expression_context(input))]

SomeOperand(b) == \E i \in 1..Len(OperandBools) : OperandBools[i] = b

\* C26: And is false if an operand coerces to false, whatever the others
\* are; None if none is false and one is None; true otherwise, the empty
\* list included.  Or is true if an operand coerces to true, else None if
\* one is None, else false.  Not of an operand that coerces to None is
\* None, and the negation of the boolean otherwise.
C26_ThreeValuedLogic ==
    call.op = "evaluate_value" =>
        /\ call.value.op = "and" =>
                out.value = IF SomeOperand(Bool(FALSE)) THEN Bool(FALSE)
                            ELSE IF SomeOperand(NoneV) THEN NoneV
                            ELSE Bool(TRUE)
        /\ call.value.op = "or" =>
                out.value = IF SomeOperand(Bool(TRUE)) THEN Bool(TRUE)
                            ELSE IF SomeOperand(NoneV) THEN NoneV
                            ELSE Bool(FALSE)
        /\ call.value.op = "not" =>
                LET operand == evaluate_bool(call.value.expression,
                                             build_expression_context(input))
                IN  out.value = IF operand = NoneV THEN NoneV
                                ELSE Bool(operand = Bool(FALSE))

\* An And of three operands whose first is None and whose last coerces to
\* false from the string "No" has given false.
C26_Witness ==
    /\ call.op = "evaluate_value"
    /\ call.value.op = "and"
    /\ Len(call.value.expressions) = 3
    /\ OperandBools[1] = NoneV
    /\ OperandBools[2] = Bool(TRUE)
    /\ call.value.expressions[3] = Literal(Str("No"))
    /\ out.value = Bool(FALSE)

----------------------------------------------------------------------------
(* Hidden questions under validate (SpecValidate)                          *)

\* The questions of the form whose visible_if evaluates to false on the
\* computed answers.
HiddenQuestions ==
    {i \in 1..Len(form.questions) :
        /\ form.questions[i].visible_if # NoExpr
        /\ evaluate_bool(form.questions[i].visible_if,
                build_expression_context(apply_computed_answers(form, input)))
            = Bool(FALSE)}

\* The error is reported at the question or at one of its list entries:
\* its path is that of the question, of an entry or of a field of an entry.
Names(error, question) ==
    \/ error.path = "/" \o question.id
    \/ \E idx \in 1..Len(IndexText) :
            \/ error.path = "/" \o question.id \o "/" \o IndexText[idx]
            \/ \E field \in {"tenant", "team"} :
                    error.path = "/" \o question.id \o "/" \o IndexText[idx]
                                    \o "/" \o field

\* The errors of the form's cross-field validations: one for each whose
\* condition is true on the computed answers, in the order of the form,
\* reported at its first field.
CrossFieldErrors ==
    LET ctx == build_expression_context(apply_computed_answers(form, input))
        holds == SelectSeq(form.validations,
                    LAMBDA v : evaluate_bool(v.condition, ctx) = Bool(TRUE))
    IN  [k \in 1..Len(holds) |->
            [question_id |-> IF holds[k].fields # <<>> THEN holds[k].fields[1]
                             ELSE holds[k].id,
             path |-> IF holds[k].fields # <<>> THEN "/" \o holds[k].fields[1]
                      ELSE "",
             message |-> holds[k].message,
             code |-> holds[k].code]]

\* C24 as claimed: a question whose visible_if evaluates to false on the
\* computed answers is in no missing_required, no error is reported at it,
\* and its id is not among the unknown fields.
C24_HiddenContributesNothing ==
    call.op = "validate" =>
        \A i \in HiddenQuestions :
            /\ \A k \in 1..Len(out.missing_required) :
                    out.missing_required[k] # form.questions[i].id
            /\ \A k \in 1..Len(out.errors) :
                    ~Names(out.errors[k], form.questions[i])
            /\ \A k \in 1..Len(out.unknown_fields) :
                    out.unknown_fields[k] # form.questions[i].id

\* C24: a question whose visible_if evaluates to false on the computed
\* answers is in no missing_required and its id is not among the unknown
\* fields, whether it is required or not and whatever value the answers
\* hold for it.  The errors end with those of the cross-field validations
\* whose condition is true, which are evaluated whatever the visibility
\* and may be reported at a hidden question; no error before them is
\* reported at a hidden question.
C24_HiddenQuestionNotChecked ==
    call.op = "validate" =>
        LET own == Len(out.errors) - Len(CrossFieldErrors)
        IN  /\ own >= 0
            /\ SubSeq(out.errors, own + 1, Len(out.errors)) = CrossFieldErrors
            /\ \A i \in HiddenQuestions :
                    /\ \A k \in 1..Len(out.missing_required) :
                            out.missing_required[k] # form.questions[i].id
                    /\ \A k \in 1..own :
                            ~Names(out.errors[k], form.questions[i])
                    /\ \A k \in 1..Len(out.unknown_fields) :
                            out.unknown_fields[k] # form.questions[i].id

\* The required boolean q2 is hidden and the answers hold a string for it;
\* validate has reported nothing of q2's own checks, and the one error is
\* that of a cross-field validation, reported at q2.
C24_Witness ==
    /\ call.op = "validate"
    /\ 2 \in HiddenQuestions
    /\ form.questions[2].required
    /\ form.questions[2].kind = "boolean"
    /\ IsObject(input)
    /\ "q2" \in DOMAIN input
    /\ input["q2"] = Str("a")
    /\ out.missing_required = <<>>
    /\ Len(out.errors) = 1
    /\ out.errors = CrossFieldErrors
    /\ out.errors[1].path = "/q2"

----------------------------------------------------------------------------
(* SpecVisibility: resolve_visibility on a form, answers and a mode        *)

\* The visible_if of a question: absent, constants that are or coerce to a
\* boolean or to nothing, and expressions over the answer to q1.
VisibilityExprs ==
    {NoExpr, Literal(Bool(TRUE)), Literal(Bool(FALSE)), Literal(Num(0)),
     Literal(Str("x")), Answer("q1"), Not(IsSet("q1")),
     Cmp("eq", Answer("q1"), Literal(Str("a"))),
     Cmp("lt", Answer("q1"), Literal(Num(1)))}

VisibilityQuestions ==
    {[Question(id, "string") EXCEPT !.visible_if = e] :
        id \in {"q1", "q2"}, e \in VisibilityExprs}

\* Forms of one or two questions; two questions may share an id.
VisibilityForms ==
    {Form("f", qs) :
        qs \in {<<a>> : a \in VisibilityQuestions}
               \cup {<<a, b>> : a \in VisibilityQuestions, b \in VisibilityQuestions}}

VisibilityInputs ==
    {Null, EmptyObj, [k \in {"q1"} |-> Str("a")], [k \in {"q1"} |-> Str("no")],
     [k \in {"q1"} |-> Bool(TRUE)], [k \in {"q1"} |-> Num(0)]}

VisibilityModes == {"Visible", "Hidden", "Error"}

InitVisibility ==
    /\ form \in VisibilityForms
    /\ context = EmptyCtx
    /\ input \in VisibilityInputs
    /\ call = Call("idle")
    /\ out = NoneV
    /\ IdleStore
    /\ IdleDriver
    /\ IdleCompose

\* resolve_visibility(&form, &answers, mode)
ResolveVisibility ==
    /\ call.op = "idle"
    /\ \E mode \in VisibilityModes :
        /\ call' = Call("resolve_visibility")
        /\ out' = [mode |-> mode, map |-> resolve_visibility(form, input, mode)]
    /\ UNCHANGED <<form, context, input, storeVars, driverVars, composeVars>>

NextVisibility == ResolveVisibility

SpecVisibility == InitVisibility /\ [][NextVisibility]_vars

\* What visible_if makes of a question under the mode.
ExpectedVisible(question, answers, mode) ==
    IF question.visible_if = NoExpr THEN TRUE
    ELSE LET val == evaluate_bool(question.visible_if,
                                  build_expression_context(answers))
         IN  IF val = Bool(TRUE) THEN TRUE
             ELSE IF val = Bool(FALSE) THEN FALSE
             ELSE mode \in {"Visible", "Error"}

\* C29: the map of resolve_visibility has one entry per question id of
\* the form and no other; the flag of a question is true when it has no
\* visible_if, else the boolean its visible_if evaluates to, else, for an
\* expression without a boolean value, true in the modes Visible and Error
\* and false in the mode Hidden.  Of two questions with one id the later
\* one decides the entry.
C29_VisibilityFlags ==
    call.op = "resolve_visibility" =>
        /\ DOMAIN out.map = {form.questions[i].id : i \in 1..Len(form.questions)}
        /\ \A i \in 1..Len(form.questions) :
                (\A j \in (i + 1)..Len(form.questions) :
                        form.questions[j].id # form.questions[i].id)
                => out.map[form.questions[i].id]
                        = ExpectedVisible(form.questions[i], input, out.mode)

\* In the mode Hidden, q1 without visible_if is visible and q2, whose
\* visible_if compares a string answer with a number and so has no value,
\* is hidden.
C29_Witness ==
    /\ call.op = "resolve_visibility"
    /\ out.mode = "Hidden"
    /\ Len(form.questions) = 2
    /\ form.questions[1].id = "q1"
    /\ form.questions[1].visible_if = NoExpr
    /\ form.questions[2].id = "q2"
    /\ form.questions[2].visible_if = Cmp("lt", Answer("q1"), Literal(Num(1)))
    /\ input = [k \in {"q1"} |-> Str("a")]
    /\ out.map = [q1 |-> TRUE, q2 |-> FALSE]

----------------------------------------------------------------------------
(* C27: expand_includes returns, and a diamond is not a cycle              *)

\* The ids of the forms the traversal from form_ enters, in traversal
\* order; a form already on the chain is not entered.
RECURSIVE EnteredIds(_, _, _)
EnteredIds(form_, chain, registry) ==
    IF \E k \in 1..Len(chain) : chain[k] = form_.id THEN <<>>
    ELSE LET RECURSIVE FromIncludes(_)
             FromIncludes(i) ==
                IF i > Len(form_.includes) THEN <<>>
                ELSE (IF form_.includes[i].form_ref \in DOMAIN registry
                      THEN EnteredIds(registry[form_.includes[i].form_ref],
                                      Append(chain, form_.id), registry)
                      ELSE <<>>) \o FromIncludes(i + 1)
         IN  <<form_.id>> \o FromIncludes(1)

\* Some form is reached from root twice, and no chain of includes leads
\* back to a form it passed through.
Diamond(root, registry) ==
    /\ ~Distinct(EnteredIds(root, <<>>, registry))
    /\ ~LeadsBack(root, <<>>, registry)

\* C27: for every root form and every registry, cyclic ones included,
\* expand_includes returns: the result is either Ok with a form that has
\* no includes left, or one of the errors MissingIncludeTarget,
\* IncludeCycleDetected and DuplicateQuestionId without a form.  When a
\* form is reached twice through different branches and no include leads
\* back to a form on the chain, the result is not IncludeCycleDetected.
C27_ExpansionReturns ==
    /\ expansion = NoneV => ENABLED ExpandIncludes
    /\ expansion # NoneV =>
        /\ expansion.kind \in {"Ok", "MissingIncludeTarget", "IncludeCycleDetected",
                               "DuplicateQuestionId"}
        /\ expansion.kind = "Ok" =>
                /\ DOMAIN expansion.form = DOMAIN root_form
                /\ expansion.form.id = root_form.id
                /\ expansion.form.includes = <<>>
        /\ expansion.kind # "Ok" => expansion.form = NoneV
        /\ Diamond(root_form, include_registry) =>
                expansion.kind # "IncludeCycleDetected"

\* The root includes B under the prefix p and C, which includes B under
\* the prefix r: B, with questions, has been reached on both branches and
\* the expansion has returned a form.
C27_Witness ==
    /\ expansion # NoneV
    /\ Diamond(root_form, include_registry)
    /\ Len(root_form.includes) = 2
    /\ root_form.includes[1].form_ref = "b-ref"
    /\ root_form.includes[2].form_ref = "a-ref"
    /\ include_registry["a-ref"].id = "C"
    /\ include_registry["b-ref"].questions # <<>>
    /\ expansion.kind = "Ok"

----------------------------------------------------------------------------
(* C28: what include expansion rewrites under a prefix                     *)

\* A path under a prefix: prefix.path for a path that is not empty and does
\* not start with '/', the path itself otherwise.
Namespaced(path, prefix) ==
    IF path # "" /\ path \notin AbsolutePaths THEN prefix \o "." \o path ELSE path

\* An expression under a non-empty prefix: the path of every Answer and
\* IsSet namespaced, at any depth; everything else as it was.
RECURSIVE NamespacedExpr(_, _)
NamespacedExpr(expr, prefix) ==
    [field \in DOMAIN expr |->
        CASE field = "path" ->
                IF expr.op \in {"answer", "is_set"} THEN Namespaced(expr.path, prefix)
                ELSE expr.path
          [] field \in {"left", "right", "expression"} ->
                NamespacedExpr(expr[field], prefix)
          [] field = "expressions" ->
                [i \in 1..Len(expr.expressions) |->
                    NamespacedExpr(expr.expressions[i], prefix)]
          [] OTHER -> expr[field]]

\* A question under a prefix: with the empty prefix the question itself,
\* otherwise its id and the ids of its list fields prefix.id and its
\* expressions namespaced.
RECURSIVE NamespacedQuestion(_, _)
NamespacedQuestion(question, prefix) ==
    IF prefix = "" THEN question
    ELSE [field \in DOMAIN question |->
            CASE field = "id" -> prefix \o "." \o question.id
              [] field \in {"visible_if", "computed"} ->
                    IF question[field] = NoExpr THEN NoExpr
                    ELSE NamespacedExpr(question[field], prefix)
              [] field = "list" ->
                    [question.list EXCEPT !.fields =
                        [i \in 1..Len(@) |-> NamespacedQuestion(@[i], prefix)]]
              [] OTHER -> question[field]]

\* The prefix of an include met under the prefix parent: parent.child, or
\* the one of the two that is not empty.
NestedPrefix(parent, child) ==
    IF ~child.some \/ child.s = "" THEN parent
    ELSE IF parent = "" THEN child.s
    ELSE parent \o "." \o child.s

\* The questions of form_ under prefix: its own, then those of each
\* include in include order.
RECURSIVE NamespacedQuestions(_, _, _)
NamespacedQuestions(form_, prefix, registry) ==
    LET RECURSIVE FromIncludes(_)
        FromIncludes(i) ==
            IF i > Len(form_.includes) THEN <<>>
            ELSE NamespacedQuestions(registry[form_.includes[i].form_ref],
                    NestedPrefix(prefix, form_.includes[i].prefix), registry)
                 \o FromIncludes(i + 1)
    IN  [i \in 1..Len(form_.questions) |->
            NamespacedQuestion(form_.questions[i], prefix)]
        \o FromIncludes(1)

\* The fields and the condition of the cross-field validations of form_
\* and of its includes under prefix, in the same order.
RECURSIVE NamespacedValidations(_, _, _)
NamespacedValidations(form_, prefix, registry) ==
    LET RECURSIVE FromIncludes(_)
        FromIncludes(i) ==
            IF i > Len(form_.includes) THEN <<>>
            ELSE NamespacedValidations(registry[form_.includes[i].form_ref],
                    NestedPrefix(prefix, form_.includes[i].prefix), registry)
                 \o FromIncludes(i + 1)
    IN  [i \in 1..Len(form_.validations) |->
            IF prefix = ""
            THEN [fields |-> form_.validations[i].fields,
                  condition |-> form_.validations[i].condition]
            ELSE [fields |-> [k \in 1..Len(form_.validations[i].fields) |->
                                prefix \o "." \o form_.validations[i].fields[k]],
                  condition |-> NamespacedExpr(form_.validations[i].condition, prefix)]]
        \o FromIncludes(1)

\* C28: the questions of an expanded form are the root's own questions
\* followed by those of each include in include order, nested includes
\* in place, under prefixes that compose as parent.child.  Under a
\* non-empty prefix every question id, list-field id and cross-field
\* validation field is prefix.id, every Answer and IsSet path that is not
\* empty and does not start with '/' is prefix.path at any depth of the
\* expression, and Var paths, Literal values, empty paths and paths that
\* start with '/' are as they were.
C28_PrefixRewriting ==
    (expansion # NoneV /\ expansion.kind = "Ok") =>
        /\ expansion.form.questions =
                NamespacedQuestions(root_form, "", include_registry)
        /\ [i \in 1..Len(expansion.form.validations) |->
                [fields |-> expansion.form.validations[i].fields,
                 condition |-> expansion.form.validations[i].condition]]
            = NamespacedValidations(root_form, "", include_registry)

\* The root includes C under the prefix p, C includes B under the prefix
\* r, and B holds a question with a nested visible_if, a list question and
\* a cross-field validation: the expansion has returned them under p.r.
C28_Witness ==
    /\ expansion # NoneV
    /\ expansion.kind = "Ok"
    /\ root_form.questions # <<>>
    /\ root_form.includes = <<IncludeSpec("a-ref", SomeStr("p"))>>
    /\ include_registry["a-ref"].id = "C"
    /\ include_registry["a-ref"].questions # <<>>
    /\ Len(include_registry["b-ref"].questions) = 2
    /\ include_registry["b-ref"].questions[2].list.some
    /\ include_registry["b-ref"].validations # <<>>
    /\ Len(expansion.form.questions) = Len(root_form.questions) + 3
    /\ \E i \in 1..Len(expansion.form.questions) :
        /\ expansion.form.questions[i].id = "p.r.q1"
        /\ expansion.form.questions[i].visible_if =
                And(<<IsSet("p.r.q2"),
                      Not(Cmp("eq", Answer("p.r.q2"), Literal(Str("q2"))))>>)
    /\ \E i \in 1..Len(expansion.form.questions) :
        /\ expansion.form.questions[i].id = "p.r.q2"
        /\ expansion.form.questions[i].list.fields[1].id = "p.r.q1"
        /\ expansion.form.questions[i].list.fields[1].visible_if =
                Or(<<Answer("/q1"), Var("q1")>>)
        /\ expansion.form.questions[i].computed = Cmp("lt", Answer(""), Var("/q2"))
    /\ \E i \in 1..Len(expansion.form.validations) :
        /\ expansion.form.validations[i].fields = <<"p.r.q1", "p.r.q2">>
        /\ expansion.form.validations[i].condition =
                Or(<<Not(IsSet("/q2")), Cmp("gte", Answer("p.r.q1"), Var("q2"))>>)

----------------------------------------------------------------------------
(* Templates (template/mod.rs)                                             *)
(*                                                                         *)
(* A template is the sequence of its pieces: literal text and the          *)
(* expressions {{secret "key"}}, {{secrets.[key]}}, {{get "path"}} and     *)
(* {{json name}}.  The secrets map of a template context is keyed by       *)
(* secret keys, each the sequence of its '/'-separated segments.  A        *)
(* render result is Ok with the text written or Err with the reason of     *)
(* the render error.  The secrets handed to with_secrets are a tagged      *)
(* value: an object with its map, or a value that is no object.            *)

TextPiece(text) == [kind |-> "text", text |-> text, key |-> <<>>]
SecretPiece(key) == [kind |-> "secret", text |-> "", key |-> key]
PathPiece(key) == [kind |-> "path", text |-> "", key |-> key]
GetPiece(name, key) == [kind |-> "get", text |-> name, key |-> key]
JsonPiece(name) == [kind |-> "json", text |-> name, key |-> <<>>]

SecretsMap(map) == [kind |-> "object", map |-> map]
NotAMap == [kind |-> "null", map |-> EmptyObj]
NoSecretsContext == [kind |-> "none", map |-> EmptyObj]

RenderOk(text) == [kind |-> "Ok", text |-> text]
RenderErr(reason) == [kind |-> "Err", text |-> reason]

\* The text of a key: its segments joined by '/'.
RECURSIVE KeyText(_)
KeyText(key) ==
    IF key = <<>> THEN ""
    ELSE IF Len(key) = 1 THEN key[1]
    ELSE key[1] \o "/" \o KeyText(Tail(key))

\* The keys of a secrets map in the order of serde_json's Map.
SecretKeyOrder == <<<<"aws">>, <<"aws", "key">>, <<"db", "key">>>>

\* serde_json::to_string on a string, a boolean, null and an object of
\* such values under the keys of KeyOrder.
RECURSIVE to_json_members(_, _, _)
to_json_string(value) ==
    IF IsObject(value)
    THEN "{" \o to_json_members(value, 1, TRUE) \o "}"
    ELSE CASE value.t = "str" -> "\"" \o value.s \o "\""
           [] value.t = "bool" -> IF value.n = 1 THEN "true" ELSE "false"
           [] OTHER -> "null"
to_json_members(object, i, first) ==
    IF i > Len(KeyOrder) THEN ""
    ELSE IF KeyOrder[i] \notin DOMAIN object
    THEN to_json_members(object, i + 1, first)
    ELSE (IF first THEN "" ELSE ",") \o "\"" \o KeyOrder[i] \o "\":"
         \o to_json_string(object[KeyOrder[i]])
         \o to_json_members(object, i + 1, FALSE)

\* serde_json::to_string on a map keyed by secret keys.
RECURSIVE secrets_to_json(_, _, _)
secrets_to_json(map, i, first) ==
    IF i > Len(SecretKeyOrder) THEN ""
    ELSE IF SecretKeyOrder[i] \notin DOMAIN map
    THEN secrets_to_json(map, i + 1, first)
    ELSE (IF first THEN "" ELSE ",") \o "\"" \o KeyText(SecretKeyOrder[i]) \o "\":"
         \o to_json_string(map[SecretKeyOrder[i]])
         \o secrets_to_json(map, i + 1, FALSE)

value_to_string(value) ==
    IF IsObject(value) THEN to_json_string(value)
    ELSE CASE value.t = "str" -> value.s
           [] value.t = "bool" -> IF value.n = 1 THEN "true" ELSE "false"
           [] value.t = "null" -> ""
           [] OTHER -> to_json_string(value)

\* SecretsContext::new keeping every secret among the values, whatever
\* the policy says.
SecretsContext_new_unfiltered(secrets, policy, host_available) ==
    [values |-> secrets.map,
     denied |-> EmptyObj,
     host_available |-> host_available]

\* SecretsContext::new: the secrets the read policy allows go to values,
\* the others leave their code in denied.
SecretsContext_new(secrets, policy, host_available) ==
    With(secrets.map, LAMBDA map :
        [values |-> [key \in {k \in DOMAIN map :
                                evaluate(policy, k, "Read", host_available) = Allowed}
                        |-> map[key]],
         denied |-> [key \in {k \in DOMAIN map :
                                evaluate(policy, k, "Read", host_available) # Allowed}
                        |-> IF evaluate(policy, key, "Read", host_available).kind
                                = "Denied"
                            THEN evaluate(policy, key, "Read", host_available).code
                            ELSE "secret_host_unavailable"],
         host_available |-> host_available])

\* TemplateContext::to_value: a context without secrets has neither "secrets" nor "__secrets_meta"; payload,
\* state, config and answers are the empty objects of the default context.
template_to_value(secrets, policy, host_available) ==
    IF secrets.kind = "none"
    THEN [has_secrets |-> FALSE, secrets |-> EmptyObj,
          meta |-> [host_available |-> FALSE, denied |-> EmptyObj]]
    ELSE With(SecretsContext_new(secrets, policy, host_available), LAMBDA ctx :
            [has_secrets |-> TRUE, secrets |-> ctx.values,
             meta |-> [host_available |-> ctx.host_available,
                       denied |-> ctx.denied]])

helper_secret(key, root) ==
    IF ~(root.has_secrets /\ root.meta.host_available)
    THEN RenderErr("secret_host_unavailable")
    ELSE IF key \in DOMAIN root.secrets
    THEN RenderOk(value_to_string(root.secrets[key]))
    ELSE IF key \in DOMAIN root.meta.denied
    THEN RenderErr(root.meta.denied[key])
    ELSE RenderErr("secret_access_denied")

\* helper_get on the paths "secrets.<key>" and "__secrets_meta.denied.<key>"
\* without a default: to_pointer turns the dots into slashes, so the
\* pointer finds the entry of a key of one segment only (the secrets'
\* values hold no member named like a segment of a key); a pointer that
\* finds nothing writes the empty string.
helper_get(name, key, root) ==
    IF ~root.has_secrets \/ Len(key) # 1 THEN RenderOk("")
    ELSE IF name = "secrets"
    THEN (IF key \in DOMAIN root.secrets
          THEN RenderOk(value_to_string(root.secrets[key])) ELSE RenderOk(""))
    ELSE (IF key \in DOMAIN root.meta.denied
          THEN RenderOk(root.meta.denied[key]) ELSE RenderOk(""))

\* helper_json on "secrets" and on "__secrets_meta" of a context that has
\* them.
helper_json(name, root) ==
    IF name = "secrets"
    THEN RenderOk("{" \o secrets_to_json(root.secrets, 1, TRUE) \o "}")
    ELSE RenderOk("{\"denied\":{"
            \o secrets_to_json([key \in DOMAIN root.meta.denied |->
                                    Str(root.meta.denied[key])], 1, TRUE)
            \o "},\"host_available\":"
            \o (IF root.meta.host_available THEN "true" ELSE "false") \o "}")

\* The text handlebars writes for the value a path expression finds: a
\* string as it is, a boolean by name, null as nothing, an object as the
\* fixed text "[object]".
json_render(value) ==
    IF IsObject(value) THEN "[object]"
    ELSE CASE value.t = "str" -> value.s
           [] value.t = "bool" -> IF value.n = 1 THEN "true" ELSE "false"
           [] OTHER -> ""

\* The escape function of a registry built by Handlebars::new(), which
\* the engine never replaces, on the texts json_render yields here.
html_escape(text) ==
    CASE text = "a<b" -> "a&lt;b"
      [] OTHER -> text

\* One piece rendered in strict mode of the handlebars registry: a path
\* that finds nothing is a render error, and what a path finds is written
\* escaped; a helper writes its text as it is.
render_piece(piece, root) ==
    CASE piece.kind = "text" -> RenderOk(piece.text)
      [] piece.kind = "secret" -> helper_secret(piece.key, root)
      [] piece.kind = "path" ->
            IF root.has_secrets /\ piece.key \in DOMAIN root.secrets
            THEN RenderOk(html_escape(json_render(root.secrets[piece.key])))
            ELSE RenderErr("missing")
      [] piece.kind = "get" -> helper_get(piece.text, piece.key, root)
      [] OTHER -> helper_json(piece.text, root)

\* render_template: the pieces written in order; the first error ends the
\* rendering and nothing written is returned.
RECURSIVE render_template(_, _, _, _)
render_template(template, i, root, written) ==
    IF i > Len(template) THEN RenderOk(written)
    ELSE With(render_piece(template[i], root), LAMBDA piece :
            IF piece.kind = "Err" THEN piece
            ELSE render_template(template, i + 1, root, written \o piece.text))

\* The source text of a template.
PieceSource(piece) ==
    CASE piece.kind = "text" -> piece.text
      [] piece.kind = "secret" -> "{{secret \"" \o KeyText(piece.key) \o "\"}}"
      [] piece.kind = "path" -> "{{secrets.[" \o KeyText(piece.key) \o "]}}"
      [] piece.kind = "get" ->
            "{{get \"" \o (IF piece.text = "secrets" THEN "secrets."
                          ELSE "__secrets_meta.denied.")
            \o KeyText(piece.key) \o "\"}}"
      [] OTHER -> "{{json " \o piece.text \o "}}"
RECURSIVE TemplateSource(_)
TemplateSource(template) ==
    IF template = <<>> THEN ""
    ELSE PieceSource(Head(template)) \o TemplateSource(Tail(template))

\* TemplateEngine::resolve_string on the value of the context.
resolve_string(template, root, mode) ==
    With(render_template(template, 1, root, ""), LAMBDA result :
        IF result.kind = "Ok" THEN result
        ELSE IF mode = "Relaxed" THEN RenderOk(TemplateSource(template))
        ELSE result)

----------------------------------------------------------------------------
(* SpecTemplate: resolve_string on two contexts whose secrets differ only  *)
(* in values the read policy does not allow                                *)

TemplateKeys == {SecretKeyOrder[i] : i \in 1..Len(SecretKeyOrder)}
TemplateSecretValues ==
    {Str("a"), Str("b"), Str("a<b"), [k \in {"q1"} |-> Str("a")]}
\* The secrets handed to with_secrets: none (no with_secrets call), a
\* value that is no object, and maps of at most two keys.
TemplateSecrets ==
    {NoSecretsContext, NotAMap}
    \cup {SecretsMap(map) :
            map \in UNION {[keys -> TemplateSecretValues] :
                            keys \in {ks \in SUBSET TemplateKeys :
                                        Cardinality(ks) <= 2}}}
TemplatePolicies ==
    {NoSecretsPolicy,
     AwsOnly,
     [AwsOnly EXCEPT !.allow = <<<<"*">>>>, !.deny = <<<<"aws", "key">>>>],
     [AwsOnly EXCEPT !.read_enabled = FALSE],
     [AwsOnly EXCEPT !.allow = <<<<"*">>>>]}
Templates ==
    {<<SecretPiece(key)>> : key \in TemplateKeys}
    \cup {<<PathPiece(key)>> : key \in TemplateKeys}
    \cup {<<GetPiece(name, <<"aws">>)>> : name \in {"secrets", "denied"}}
    \cup {<<JsonPiece(name)>> : name \in {"secrets", "__secrets_meta"}}
    \cup {<<TextPiece("v="), SecretPiece(<<"aws", "key">>)>>,
          <<JsonPiece("secrets"), SecretPiece(<<"db", "key">>)>>}
TemplateModes == {"Strict", "Relaxed"}

\* The read policy allows key: its value is in the context's secrets.
ReadAllowed(key) ==
    evaluate(form.secrets_policy, key, "Read", context.host_available) = Allowed

\* Two secrets values that differ at most in the values of keys the read
\* policy does not allow.
SameButNotAllowed(first, second, policy, host_available) ==
    /\ second.kind = first.kind
    /\ DOMAIN second.map = DOMAIN first.map
    /\ \A key \in DOMAIN first.map :
            evaluate(policy, key, "Read", host_available) = Allowed =>
                second.map[key] = first.map[key]

InitTemplate ==
    /\ IdleStore
    /\ IdleDriver
    /\ IdleCompose
    /\ \E policy \in TemplatePolicies :
            form = [Form("f", <<>>) EXCEPT !.secrets_policy = policy]
    /\ \E host_available \in BOOLEAN :
            context = [host_available |-> host_available]
    /\ \E first, second \in TemplateSecrets :
        /\ SameButNotAllowed(first, second, form.secrets_policy,
                             context.host_available)
        /\ input = [first |-> first, second |-> second]
    /\ \E template \in Templates, mode \in TemplateModes :
        /\ input.first.kind = "none" => \A i \in 1..Len(template) : template[i].kind # "json"
        /\ call = [op |-> "init", template |-> template, mode |-> mode]
    /\ out = NoneV

\* resolve_string on the context built by with_secrets from each of the two
\* secrets values.
ResolveString ==
    /\ call.op = "init"
    /\ call' = [call EXCEPT !.op = "resolve_string"]
    /\ out' = [first |-> resolve_string(call.template,
                            template_to_value(input.first, form.secrets_policy,
                                     context.host_available), call.mode),
               second |-> resolve_string(call.template,
                            template_to_value(input.second, form.secrets_policy,
                                     context.host_available), call.mode)]
    /\ UNCHANGED <<form, context, input, storeVars, driverVars, composeVars>>

NextTemplate == ResolveString
SpecTemplate == InitTemplate /\ [][NextTemplate]_vars

\* The template is the secret helper alone, asked for key.
SecretHelperFor(key) == call.template = <<SecretPiece(key)>>

\* C25: two contexts that differ only in the values of secrets the read
\* policy does not allow render every template to the same result, in
\* both modes.  The secret helper alone writes the value of its key when
\* the key is among the secrets and evaluate(policy, key, Read,
\* host_available) is Allowed; otherwise, in strict mode, it is an error
\* whose reason is secret_host_unavailable when host_available is false
\* and the code of the policy's denial when the key is denied, and in
\* relaxed mode the template's own text is returned.
C25_NoSecretLeak ==
    out # NoneV =>
        /\ out.first = out.second
        /\ \A key \in TemplateKeys :
            (SecretHelperFor(key) /\ key \in DOMAIN input.first.map) =>
                With(evaluate(form.secrets_policy, key, "Read",
                              context.host_available), LAMBDA access :
                    CASE access = Allowed ->
                            out.first = RenderOk(value_to_string(input.first.map[key]))
                      [] call.mode = "Relaxed" ->
                            out.first = RenderOk(TemplateSource(call.template))
                      [] ~context.host_available ->
                            out.first = RenderErr("secret_host_unavailable")
                      [] OTHER ->
                            /\ access.kind = "Denied"
                            /\ out.first = RenderErr(access.code))

\* The read policy denies aws/key while the host is available, the two
\* contexts hold different values for it, and the strict secret helper
\* has failed with the policy code on both.
C25_Witness ==
    /\ out # NoneV
    /\ SecretHelperFor(<<"aws", "key">>)
    /\ call.mode = "Strict"
    /\ context.host_available
    /\ form.secrets_policy.enabled
    /\ <<"aws", "key">> \in DOMAIN input.first.map
    /\ input.first.map[<<"aws", "key">>] # input.second.map[<<"aws", "key">>]
    /\ \E key \in DOMAIN input.first.map : ReadAllowed(key)
    /\ out.first = RenderErr("secret_access_denied")
    /\ out.second = RenderErr("secret_access_denied")

====
